---- MODULE Spec2Model ----
\* sb-rate-parity: the reference-price resolver (fetchGoogleHotels.js), the run
\* loop (index.js) and the webhook delivery pipeline (postRowsChunk), modelled
\* from the sources.  The repository holds several versions of each file; the
\* versions that behave differently are kept apart by a variant variable.
EXTENDS Integers, Sequences, FiniteSets, TLC

VARIABLES
    resolverVariant, \* which getGoogleHotelsPriceSimple is linked in
    call,            \* the last resolver call: inputs, steps executed, result
    sessions,        \* browser sessions currently open
    calls,           \* resolver calls made so far
    runVariant,      \* which index.js main is running
    webhookOk,       \* WEBHOOK_URL is set and starts with http(s)://
    window,          \* the run's date window {checkIn, checkOut}
    pc,              \* position of main
    hotels,          \* the list returned by getSparrowHotels
    i,               \* loop index into hotels (0-based as in the code)
    rows,            \* rows built so far
    chunkStart,      \* i of the batch loop (0-based offset into rows)
    attempt,         \* attempt of postRowsChunk's for loop
    responses,       \* webhook answers to the POSTs of the current batch
    delays,          \* every backoff sleep: batch, attempt it follows, ms
    sent,            \* payload of every batch, in the order first POSTed
    outcomes,        \* how each finished batch ended, with its POST count
    exitCode,        \* "running", "exit 0" (main returned) or "exit 1" (process.exit(1))
    dryRun,          \* DRY_RUN is "true"
    today,           \* the calendar day the clock shows
    trace,           \* the browser work of the run in order: discovery, resolver calls, sleeps
    discoverVariant, \* which getSparrowHotels is linked in
    maxHotels,       \* getSparrowHotels' maxHotels
    maxPages,        \* getSparrowHotels' maxPages
    sourcePages,     \* number of pages the listing site has for this search
    view,            \* the listing page the browser shows
    sourceCards,     \* the cards of every source page navigated to so far
    flaky,           \* some page navigated to was without cards at its first extraction
    dpc,             \* position of getSparrowHotels
    p,               \* p / pageIndex of the pagination loop
    results,         \* results
    seen,            \* seen
    cards,           \* cards / pageItems: the last extraction
    clicks,          \* every click on a pager control, in order
    tries,           \* extractCards calls made on the page shown
    waited,          \* how the last page-change wait ended
    stop,            \* which exit of the pagination loop was taken
    dom,             \* the Google Hotels page handed to the extractors
    extracted,       \* what the extractors returned for dom
    args,            \* the arguments of the helper computation last evaluated
    value            \* what that computation produced

vars == << resolverVariant, call, sessions, calls, runVariant, webhookOk, window,
           pc, hotels, i, rows, chunkStart, attempt, responses, delays, sent,
           outcomes, exitCode, dryRun, today, trace, discoverVariant, maxHotels, maxPages, sourcePages,
           view, sourceCards, flaky, dpc, p, results, seen, cards, clicks, tries, waited,
           stop, dom, extracted, args, value >>

resolverVars == << resolverVariant, call, sessions, calls >>
runVars == << runVariant, webhookOk, window, pc, hotels, i, rows, exitCode,
             dryRun, today, trace >>
deliveryVars == << chunkStart, attempt, responses, delays, sent, outcomes >>
discoverVars == << discoverVariant, maxHotels, maxPages, sourcePages, view, sourceCards,
                   flaky, dpc,
                   p, results, seen, cards, clicks, tries, waited, stop >>
extractVars == << dom, extracted >>
calcVars == << args, value >>

\* ---------------------------------------------------------------------------
\* Bounds of the model
\* ---------------------------------------------------------------------------
MaxCalls == 2
MaxHotels == 2
MaxRows == 41

\* JavaScript values a price variable or a row cell can hold: null, a finite
\* number, and the empty string "" that num() writes for a missing value
Null == [ null |-> TRUE ]
Num(v) == [ num |-> v ]
Blank == [ blank |-> TRUE ]

\* ---------------------------------------------------------------------------
\* Text: strings are sequences of one-character strings, so that
\* String.prototype.includes is a real substring search.
\* ---------------------------------------------------------------------------
DigitChar == << "0", "1", "2", "3", "4", "5", "6", "7", "8", "9" >>

\* decimal rendering of a day of month, no leading zero (dayjs token "D")
DayText(d) ==
    IF d < 10 THEN << DigitChar[d + 1] >>
    ELSE << DigitChar[(d \div 10) + 1], DigitChar[(d % 10) + 1] >>

\* dayjs token "MMM" for the months the model uses
MonthText(m) ==
    CASE m = 10 -> << "O", "c", "t" >>
      [] m = 11 -> << "N", "o", "v" >>
      [] m = 12 -> << "D", "e", "c" >>

\* dayjs(date).format("MMM D"), e.g. "Nov 26"
FormatShort(date) == MonthText(date.m) \o << " " >> \o DayText(date.d)

\* s.includes(t)
Includes(s, t) ==
    \E k \in 0..(Len(s) - Len(t)) : SubSeq(s, k + 1, k + Len(t)) = t

\* ---------------------------------------------------------------------------
\* The date picker as the environment shows it
\* ---------------------------------------------------------------------------
Dates == { [m |-> 11, d |-> 2], [m |-> 11, d |-> 26], [m |-> 11, d |-> 28] }

Before(a, b) == a.m < b.m \/ (a.m = b.m /\ a.d < b.d)

\* date windows a run can ask for: checkOut is NIGHTS > 0 days after checkIn
Windows == { w \in [checkIn : Dates, checkOut : Dates] : Before(w.checkIn, w.checkOut) }

NoDate == [m |-> 0, d |-> 0]

\* Number() of a text that is no number
NaN == [ nan |-> TRUE ]

\* a + b of two numbers, NaN when one of them is
Plus(a, b) == IF a = NaN \/ b = NaN THEN NaN ELSE Num(a.num + b.num)

\* what dayjs holds after an invalid operation; formats as "Invalid Date"
InvalidDate == [ invalid |-> TRUE ]

\* days of October, November and December counted from October 31
Ordinal(date) ==
    CASE date.m = 10 -> date.d - 31
      [] date.m = 11 -> date.d
      [] date.m = 12 -> date.d + 30

DateOf(o) ==
    IF o < 1 THEN [ m |-> 10, d |-> o + 31 ]
    ELSE IF o <= 30 THEN [ m |-> 11, d |-> o ]
    ELSE [ m |-> 12, d |-> o - 30 ]

\* dayjs(date).add(n, "day")
AddDays(date, n) ==
    IF date = InvalidDate \/ n = NaN THEN InvalidDate ELSE DateOf(Ordinal(date) + n.num)

\* the day on which main starts
Today == [ m |-> 11, d |-> 19 ]

\* value of the Check-in / Check-out input after the picker closed; an absent
\* or empty input reads back as ""
UiText(prefix, shown) == IF shown = NoDate THEN << >> ELSE prefix \o FormatShort(shown)

\* ---------------------------------------------------------------------------
\* Reference Price Resolver: getGoogleHotelsPriceSimple
\*   "gated"   src/fetchGoogleHotels.js:237-312 (read-back compared, early return)
\*   "ungated" src/unnamed/part_004:252-319     (read-back only logged)
\* ---------------------------------------------------------------------------
ResolverVariants == { "gated", "ungated" }

\* the operations of a call that can throw
FailPoints == { "none", "launch", "newPage", "goto", "setDates", "extractBest",
                "countViewPrices", "viewPrices", "extractMajor" }

BestPrices == { Null, Num(80) }
MajorPrices == { Null, Num(95) }

\* the input box shows the weekday in front of the short date ("Wed, Nov 26")
UiPrefix == << "W", "e", "d", ",", " " >>

\* what the outside world does during one call: which operation throws, what the
\* picker shows afterwards, what the two extractions find on the page.  A call
\* that throws before the read-back never looks at the page.
Envs ==
    [ failAt : { "launch", "newPage", "goto", "setDates" }, shownIn : {NoDate},
      shownOut : {NoDate}, best : {Null}, major : {Null} ]
    \cup
    [ failAt : { "none", "extractBest", "countViewPrices", "viewPrices", "extractMajor" },
      shownIn : Dates \cup {NoDate}, shownOut : Dates \cup {NoDate},
      best : BestPrices, major : MajorPrices ]

\* uiIn.includes(wantInShort) && uiOut.includes(wantOutShort)
DatesMatch(checkIn, checkOut, uiIn, uiOut) ==
    Includes(uiIn, FormatShort(checkIn)) /\ Includes(uiOut, FormatShort(checkOut))

\* the lazy-render scroll loop: 2 rounds, 3 in part_004
Scrolls(v) == IF v = "gated" THEN << "scroll", "scroll" >> ELSE << "scroll", "scroll", "scroll" >>

\* does the call go on past the date check?  part_004 has no check.
GateOpen(v, checkIn, checkOut, env) ==
    \/ v = "ungated"
    \/ DatesMatch(checkIn, checkOut, UiText(UiPrefix, env.shownIn),
                  UiText(UiPrefix, env.shownOut))

\* the operations of a call in program order, were none of them to throw
Plan(v, open) ==
    << "launch", "newPage", "goto", "setDates" >>
      \o (IF open THEN Scrolls(v) \o << "extractBest", "countViewPrices", "viewPrices",
                                          "extractMajor" >>
                  ELSE << >>)

\* The major-provider step: locating the 'View prices' button (btn.count() /
\* viewBtn.waitFor), clicking it, evaluating the provider blocks.  Both
\* versions catch a failing click; part_004 (getMajorOtaBest) also catches the
\* other two, fetchGoogleHotels.js does not.
Caught(v, step) ==
    \/ step = "viewPrices"
    \/ v = "ungated" /\ step \in { "countViewPrices", "extractMajor" }

Pos(seq, x) == IF \E k \in 1..Len(seq) : seq[k] = x
               THEN CHOOSE k \in 1..Len(seq) : seq[k] = x
               ELSE 0

\* One call.  Result: the steps executed, the value returned or "throw", and the
\* number of sessions the call leaves open.
getGoogleHotelsPriceSimple(v, checkIn, checkOut, env) ==
    LET open == GateOpen(v, checkIn, checkOut, env)
        plan == Plan(v, open)
        k == IF Caught(v, env.failAt) THEN 0 ELSE Pos(plan, env.failAt)
    IN  IF k > 0
        THEN \* launch and newPage are outside the try: no finally for them
             [ steps  |-> SubSeq(plan, 1, k) \o (IF k >= 3 THEN << "close" >> ELSE << >>),
               result |-> [ kind |-> "throw" ],
               left   |-> IF k = 2 THEN 1 ELSE 0 ]
        ELSE [ steps  |-> plan \o << "close" >>,
               result |-> [ kind |-> "return",
                            check_in |-> checkIn,
                            check_out |-> checkOut,
                            google_best |-> IF open THEN env.best ELSE Null,
                            google_major_best |->
                                IF open /\ ~Caught(v, env.failAt) THEN env.major
                                ELSE IF open /\ env.failAt \in { "countViewPrices", "viewPrices" }
                                     THEN env.major
                                ELSE Null ],
               left   |-> 0 ]

NoCall == [ kind |-> "none" ]

CallRecord(v, checkIn, checkOut, env) ==
    LET r == getGoogleHotelsPriceSimple(v, checkIn, checkOut, env)
    IN  [ kind |-> "call", checkIn |-> checkIn, checkOut |-> checkOut, env |-> env,
          steps |-> r.steps, result |-> r.result ]

\* ---------------------------------------------------------------------------
\* Specification of the resolver alone: calls with every window and environment
\* ---------------------------------------------------------------------------
RunIdle ==
    /\ runVariant = "none" /\ webhookOk = TRUE /\ pc = "idle"
    /\ hotels = << >> /\ i = 0 /\ rows = << >> /\ exitCode = "running"
    /\ dryRun = FALSE /\ today = Today /\ trace = << >>

DeliveryIdle ==
    /\ chunkStart = 0 /\ attempt = 0 /\ responses = << >> /\ delays = << >>
    /\ sent = << >> /\ outcomes = << >>

DiscoverIdle ==
    /\ discoverVariant = "none" /\ maxHotels = 0 /\ maxPages = 0 /\ sourcePages = 0
    /\ view = [ idx |-> 0 ] /\ sourceCards = { } /\ flaky = FALSE /\ dpc = "idle" /\ p = 0
    /\ results = << >> /\ seen = { } /\ cards = << >> /\ clicks = << >>
    /\ tries = 0 /\ waited = "none" /\ stop = "running"

ExtractIdle ==
    /\ dom = [ kind |-> "none" ] /\ extracted = [ kind |-> "none" ]

CalcIdle ==
    /\ args = [ kind |-> "none" ] /\ value = [ kind |-> "none" ]

InitResolve ==
    /\ resolverVariant \in ResolverVariants
    /\ call = NoCall /\ sessions = 0 /\ calls = 0
    /\ window \in Windows
    /\ RunIdle /\ DeliveryIdle
    /\ DiscoverIdle /\ ExtractIdle /\ CalcIdle

ResolverCall ==
    /\ pc = "idle" /\ calls < MaxCalls
    /\ \E env \in Envs :
         LET r == getGoogleHotelsPriceSimple(resolverVariant, window.checkIn, window.checkOut, env)
         IN  /\ call' = CallRecord(resolverVariant, window.checkIn, window.checkOut, env)
             /\ sessions' = sessions + r.left
    /\ calls' = calls + 1
    /\ UNCHANGED << resolverVariant, runVars, deliveryVars >>
    /\ UNCHANGED << discoverVars, extractVars, calcVars >>

NextResolve == ResolverCall

SpecResolve == InitResolve /\ [][NextResolve]_vars

\* ---------------------------------------------------------------------------
\* The run: main of index.js
\*   "index"    src/index.js:18-168          (no try around the resolver, one POST)
\*   "batched"  src/unnamed/part_006:89-215  (try/catch per hotel, postRowsChunk)
\*   "part_005" src/unnamed/part_005:17-158  (as index.js; the webhook guard is
\*              skipped on a dry run, an empty listing is fatal)
\*   "offsets"  src/index.js:184-230         (no guard, no catch; the resolver is
\*              getGoogleHotelsPrices of part_001, which is handed day offsets)
\* ---------------------------------------------------------------------------
RunVariants == { "index", "batched" }

MainVariants == RunVariants \cup { "part_005", "offsets" }

\* webhook tuning
BATCH_SIZE == 20
MAX_RETRIES == 4
BASE_DELAY_MS == 2000

\* num(x): a finite number stays, anything else becomes ""
num(x) == IF DOMAIN x = { "num" } THEN x ELSE Blank

\* the row pushed when the resolver returned gh
FullRow(v, h, gh) ==
    [ property |-> h,
      check_in |-> gh.check_in,
      check_out |-> gh.check_out,
      google_best |-> num(gh.google_best),
      google_major_best |-> IF v \in { "index", "part_005" } THEN num(gh.google_major_best)
                            ELSE Blank ]

\* the SB-only row pushed by the catch of part_006
SbOnlyRow(h) ==
    [ property |-> h, check_in |-> Blank, check_out |-> Blank,
      google_best |-> Blank, google_major_best |-> Blank ]

\* environments the run loop is explored with: the page opens or navigation
\* fails; the picker shows the requested check-in date or nothing
RunEnvs(w) ==
    { e \in Envs : /\ e.failAt \in { "none", "newPage", "goto" }
                   /\ e.failAt = "none" => /\ e.shownIn \in { w.checkIn, NoDate }
                                           /\ e.shownOut = w.checkOut
                                           /\ e.major = Null }

\* polite pacing: 1000 + Math.floor(Math.random() * 600), and 1200 + ... * 800
\* in index.js:220; the least and the greatest value
PolitenessDelays(v) == IF v = "offsets" THEN { 1200, 1999 } ELSE { 1000, 1599 }

\* what the trace records: getSparrowHotels called with a window (index.js:186
\* hands it none) and the number of listings it returned, a resolver call with
\* the window it worked on, a politeness sleep; open is the number of browser
\* sessions open during the operation
DiscoverEvent(v, w, open, found) ==
    [ op |-> "discover",
      checkIn |-> IF v = "offsets" THEN NoDate ELSE w.checkIn,
      checkOut |-> IF v = "offsets" THEN NoDate ELSE w.checkOut,
      open |-> open, found |-> found ]

\* MAX_HOTELS = Number(process.env.MAX_HOTELS || 10) of index.js (100 in
\* part_005): a setting below the length of the discovered list, and the default
MaxHotelsSettings == { 1, 10 }

\* allHotels.slice(0, MAX_HOTELS), Math.min(MAX_HOTELS, hotels.length): how many
\* of the n discovered listings the loop goes through; part_006 and
\* index.js:184-230 loop over all of them
ToProcess(v, n, cap) == IF v \in { "index", "part_005" } /\ cap < n THEN cap ELSE n

CallEvent(w, open, threw) ==
    [ op |-> "call", checkIn |-> w.checkIn, checkOut |-> w.checkOut,
      open |-> open, threw |-> threw ]

SleepEvent(ms) == [ op |-> "sleep", ms |-> ms ]

\* getGoogleHotelsPrices of part_001: check_in and check_out come from the
\* clock at the time of the call and the two offsets (7 and 2 unless the
\* environment says otherwise); browser.close() is reached only when nothing
\* throws
OffsetWindow(now) ==
    [ checkIn |-> AddDays(now, Num(7)), checkOut |-> AddDays(now, Num(7 + 2)) ]

getGoogleHotelsPrices(now, env) ==
    LET plan == << "launch", "newPage", "goto", "evaluate" >>
        k == Pos(plan, env.failAt)
    IN  IF k > 0
        THEN [ steps  |-> SubSeq(plan, 1, k),
               result |-> [ kind |-> "throw" ],
               left   |-> IF k >= 2 THEN 1 ELSE 0 ]
        ELSE [ steps  |-> plan \o << "close" >>,
               result |-> [ kind |-> "return",
                            check_in |-> OffsetWindow(now).checkIn,
                            check_out |-> OffsetWindow(now).checkOut,
                            google_best |-> env.best,
                            google_major_best |-> Null ],
               left   |-> 0 ]

\* the window a resolver call of the run works on
CallWindow(v, w, now) == IF v = "offsets" THEN OffsetWindow(now) ELSE w

\* the resolver call of one pass of the loop
Resolve(v, rv, w, now, env) ==
    IF v = "offsets" THEN getGoogleHotelsPrices(now, env)
    ELSE getGoogleHotelsPriceSimple(rv, w.checkIn, w.checkOut, env)

Init ==
    /\ runVariant \in MainVariants
    /\ resolverVariant \in (IF runVariant = "offsets" THEN { "part_001" } ELSE ResolverVariants)
    /\ call = NoCall /\ sessions = 0 /\ calls = 0
    /\ webhookOk \in BOOLEAN
    /\ dryRun \in BOOLEAN
    /\ window \in (IF runVariant = "offsets" THEN { OffsetWindow(Today) } ELSE Windows)
    /\ today = Today /\ trace = << >>
    /\ pc = "start" /\ hotels = << >> /\ i = 0 /\ rows = << >> /\ exitCode = "running"
    /\ DeliveryIdle
    /\ DiscoverIdle /\ ExtractIdle /\ CalcIdle

\* catch (err) { console.error("FATAL:", ...); process.exit(1); } -- and the
\* unhandled rejection of index.js:184-230, which has no catch
Fatal ==
    /\ pc' = "exit" /\ exitCode' = "exit 1"

\* does this main test WEBHOOK_URL before it starts?  part_005 only
\* if (!DRY_RUN); index.js:184-230 never
Guarded(v, dry) == v \in RunVariants \/ (v = "part_005" /\ ~dry)

\* if (!WEBHOOK || !/^https?:\/\//i.test(WEBHOOK)) throw / process.exit(1)
ConfigFailure ==
    /\ pc = "start" /\ ~webhookOk /\ Guarded(runVariant, dryRun)
    /\ Fatal
    /\ UNCHANGED << resolverVars, runVariant, webhookOk, window, hotels, i, rows, deliveryVars >>
    /\ UNCHANGED << dryRun, today, trace, discoverVars, extractVars, calcVars >>

\* hotels = await getSparrowHotels({... checkIn, checkOut}); part_005 and
\* part_006 throw on an empty list; index.js and part_005 then keep the first
\* MAX_HOTELS listings
Discover ==
    /\ pc = "start" /\ (webhookOk \/ ~Guarded(runVariant, dryRun))
    /\ \E n \in 0..MaxHotels, cap \in MaxHotelsSettings :
         /\ hotels' = [ k \in 1..ToProcess(runVariant, n, cap) |-> k ]
         /\ IF runVariant \in { "batched", "part_005" } /\ n = 0
            THEN Fatal
            ELSE pc' = "loop" /\ UNCHANGED exitCode
         /\ trace' = Append(trace, DiscoverEvent(runVariant, window, sessions + 1, n))
    /\ UNCHANGED << resolverVars, runVariant, webhookOk, window, i, rows, deliveryVars >>
    /\ UNCHANGED << dryRun, today, discoverVars, extractVars, calcVars >>

\* getSparrowHotels rejects: at the launch, or later with its browser left
\* open (browser.close() is its last statement before the return)
DiscoverThrows ==
    /\ pc = "start" /\ (webhookOk \/ ~Guarded(runVariant, dryRun))
    /\ Fatal
    /\ \E left \in { 0, 1 } :
         /\ sessions' = sessions + left
         /\ trace' = Append(trace, DiscoverEvent(runVariant, window, sessions + left, 0))
    /\ UNCHANGED << resolverVariant, call, calls, runVariant, webhookOk, window, hotels, i,
                    rows, deliveryVars >>
    /\ UNCHANGED << dryRun, today, discoverVars, extractVars, calcVars >>

\* one iteration of the loop over hotels
ProcessHotel ==
    /\ pc = "loop" /\ i < Len(hotels)
    /\ \E env \in RunEnvs(window) :
         LET h == hotels[i + 1]
             w == CallWindow(runVariant, window, today)
             r == Resolve(runVariant, resolverVariant, window, today, env)
             called == CallEvent(w, sessions + 1, r.result.kind = "throw")
         IN  /\ call' = [ kind |-> "call", checkIn |-> w.checkIn, checkOut |-> w.checkOut,
                          env |-> env, steps |-> r.steps, result |-> r.result ]
             /\ sessions' = sessions + r.left
             /\ calls' = calls + 1
             /\ IF r.result.kind = "throw"
                THEN /\ trace' = Append(trace, called)
                     /\ IF runVariant = "batched"
                        THEN \* catch: SB-only row, continue
                             /\ rows' = Append(rows, SbOnlyRow(h))
                             /\ i' = i + 1
                             /\ UNCHANGED << pc, exitCode >>
                        ELSE \* the rejection reaches main's catch
                             /\ Fatal
                             /\ UNCHANGED << rows, i >>
                ELSE /\ rows' = Append(rows, FullRow(runVariant, h, r.result))
                     /\ i' = i + 1
                     /\ \E ms \in PolitenessDelays(runVariant) :
                            trace' = trace \o << called, SleepEvent(ms) >>
                     /\ UNCHANGED << pc, exitCode >>
    /\ UNCHANGED << resolverVariant, runVariant, webhookOk, window, hotels, deliveryVars >>
    /\ UNCHANGED << dryRun, today, discoverVars, extractVars, calcVars >>

\* the clock passes midnight while the loop runs
Midnight ==
    /\ pc = "loop" /\ today = Today
    /\ today' = AddDays(today, Num(1))
    /\ UNCHANGED << resolverVars, runVariant, webhookOk, window, pc, hotels, i, rows,
                    exitCode, dryRun, trace, deliveryVars >>
    /\ UNCHANGED << discoverVars, extractVars, calcVars >>

\* mutant of SkipsDelivery: the test of DRY_RUN after the loop is missing
SkipsDeliveryNever(v, dry) == FALSE

\* if (DRY_RUN) { ...; return; } after the loop: index.js:18-168 and part_005
\* have it, the other two mains do not read DRY_RUN
SkipsDelivery(v, dry) == dry /\ v \in { "index", "part_005" }

\* the loop is over: if (DRY_RUN) return, or go on to the webhook
BeginDelivery ==
    /\ pc = "loop" /\ i = Len(hotels)
    /\ IF SkipsDelivery(runVariant, dryRun)
       THEN pc' = "exit" /\ exitCode' = "exit 0"
       ELSE /\ pc' = IF runVariant = "batched" THEN "batch" ELSE "postall"
            /\ UNCHANGED exitCode
    /\ UNCHANGED << resolverVars, runVariant, webhookOk, window, hotels, i, rows, deliveryVars >>
    /\ UNCHANGED << dryRun, today, trace, discoverVars, extractVars, calcVars >>

\* ---------------------------------------------------------------------------
\* Delivery
\* ---------------------------------------------------------------------------
\* what one fetch can do: answer with an HTTP status, or reject (network error)
Statuses == { 200, 403, 429, 503 }
Responses == [ status : Statuses ] \cup { [ neterr |-> TRUE ] }

IsHttp(resp) == DOMAIN resp = { "status" }

\* mutant of Ok: ">" for ">=", so that 200 is no success
OkAbove200(resp) == IsHttp(resp) /\ resp.status > 200 /\ resp.status < 300

\* res.ok
Ok(resp) == IsHttp(resp) /\ resp.status >= 200 /\ resp.status < 300

\* mutants of Retryable: the 5xx range forgotten; every non-2xx status retried
RetryableOnly429(resp) == IsHttp(resp) /\ resp.status = 429
RetryableAnyNon2xx(resp) == IsHttp(resp) /\ ~(resp.status >= 200 /\ resp.status < 300)

\* res.status === 429 || (res.status >= 500 && res.status < 600)
Retryable(resp) ==
    IsHttp(resp) /\ (resp.status = 429 \/ (resp.status >= 500 /\ resp.status < 600))

Pow2(n) == IF n <= 0 THEN 1 ELSE 2 ^ n

\* mutant of BackoffDelay: linear instead of exponential
BackoffLinear(a) == BASE_DELAY_MS * a

\* BASE_DELAY_MS * Math.pow(2, attempt - 1)
BackoffDelay(a) == BASE_DELAY_MS * Pow2(a - 1)

\* what postRowsChunk does with the outcome of one fetch:
\*   "done"    if (res.ok) return
\*   "backoff" 429 / 5xx: sleep(delay); continue -- and the catch: sleep(delay)
\*   "giveup"  "Non-retriable webhook error": return
Classify(resp) ==
    IF ~IsHttp(resp) THEN "backoff"
    ELSE IF Ok(resp) THEN "done"
    ELSE IF Retryable(resp) THEN "backoff"
    ELSE "giveup"

\* mutants of LoopContinues: "<" for "<="; one attempt too many
LoopContinuesStrict(a) == a < MAX_RETRIES
LoopContinuesOneMore(a) == a <= MAX_RETRIES + 1

\* for (let attempt = 1; attempt <= MAX_RETRIES; attempt++)
LoopContinues(a) == a <= MAX_RETRIES

Min(a, b) == IF a < b THEN a ELSE b

\* mutant of Slice: the end index taken as inclusive
SliceInclusive(seq, from, to) == SubSeq(seq, from + 1, Min(to + 1, Len(seq)))

\* rows.slice(from, to), from 0-based, to exclusive and clipped to the length
Slice(seq, from, to) == SubSeq(seq, from + 1, Min(to, Len(seq)))

\* const chunkIndex = i / BATCH_SIZE + 1
ChunkIndex(start) == (start \div BATCH_SIZE) + 1

\* postRowsChunk returns: the batch loop's i += BATCH_SIZE
FinishChunk(result) ==
    /\ outcomes' = Append(outcomes, [ result |-> result, posts |-> Len(responses') ])
    /\ chunkStart' = chunkStart + BATCH_SIZE
    /\ pc' = "batch"

\* head of the batch loop: slice the next chunk and enter postRowsChunk, or
\* leave the loop ("All chunks processed. Done.")
NextChunk ==
    /\ pc = "batch"
    /\ IF chunkStart < Len(rows)
       THEN LET chunk == Slice(rows, chunkStart, chunkStart + BATCH_SIZE)
            IN  IF Len(chunk) = 0
                THEN \* if (!rowsChunk.length) return;
                     /\ responses' = << >>
                     /\ FinishChunk("empty")
                     /\ UNCHANGED << sent, attempt, delays, exitCode >>
                ELSE /\ sent' = Append(sent, chunk)
                     /\ attempt' = 1
                     /\ responses' = << >>
                     /\ pc' = "post"
                     /\ UNCHANGED << chunkStart, outcomes, delays, exitCode >>
       ELSE /\ pc' = "exit" /\ exitCode' = "exit 0"
            /\ UNCHANGED deliveryVars
    /\ UNCHANGED << resolverVars, runVariant, webhookOk, window, hotels, i, rows >>
    /\ UNCHANGED << dryRun, today, trace, discoverVars, extractVars, calcVars >>

\* one POST attempt of postRowsChunk and the classification of its answer
PostAttempt ==
    /\ pc = "post"
    /\ \E resp \in Responses :
         /\ responses' = Append(responses, resp)
         /\ CASE Classify(resp) = "done" ->
                   FinishChunk("delivered") /\ UNCHANGED << attempt, delays >>
              [] Classify(resp) = "backoff" ->
                   /\ delays' = Append(delays, [ chunk |-> ChunkIndex(chunkStart),
                                                 attempt |-> attempt,
                                                 ms |-> BackoffDelay(attempt) ])
                   /\ pc' = "sleep"
                   /\ UNCHANGED << attempt, chunkStart, outcomes >>
              [] Classify(resp) = "giveup" ->
                   FinishChunk("rejected") /\ UNCHANGED << attempt, delays >>
    /\ UNCHANGED << resolverVars, runVariant, webhookOk, window, hotels, i, rows, sent, exitCode >>
    /\ UNCHANGED << dryRun, today, trace, discoverVars, extractVars, calcVars >>

\* the sleep is over: attempt++, and either the next attempt or the end of the
\* for loop ("failed after MAX_RETRIES attempts. Skipping this chunk.")
AfterSleep ==
    /\ pc = "sleep"
    /\ attempt' = attempt + 1
    /\ IF LoopContinues(attempt + 1)
       THEN pc' = "post" /\ UNCHANGED << chunkStart, outcomes >>
       ELSE /\ outcomes' = Append(outcomes, [ result |-> "abandoned", posts |-> Len(responses) ])
            /\ chunkStart' = chunkStart + BATCH_SIZE
            /\ pc' = "batch"
    /\ UNCHANGED << resolverVars, runVariant, webhookOk, window, hotels, i, rows,
                    responses, delays, sent, exitCode >>
    /\ UNCHANGED << dryRun, today, trace, discoverVars, extractVars, calcVars >>

\* index.js: one POST with all rows; a rejection or a non-2xx answer is thrown
\* into main's catch.  index.js:223-229 does not look at the answer, and has no
\* catch for a rejection (fetch rejects at once without a usable WEBHOOK_URL).
PostAll ==
    /\ pc = "postall"
    /\ \E resp \in Responses :
         /\ ~webhookOk => ~IsHttp(resp)
         /\ sent' = Append(sent, rows)
         /\ responses' = << resp >>
         /\ pc' = "exit"
         /\ exitCode' = IF Ok(resp) \/ (runVariant = "offsets" /\ IsHttp(resp))
                        THEN "exit 0" ELSE "exit 1"
         /\ outcomes' = IF Ok(resp)
                        THEN Append(outcomes, [ result |-> "delivered", posts |-> 1 ])
                        ELSE outcomes
    /\ UNCHANGED << resolverVars, runVariant, webhookOk, window, hotels, i, rows,
                    chunkStart, attempt, delays >>
    /\ UNCHANGED << dryRun, today, trace, discoverVars, extractVars, calcVars >>

Next ==
    \/ ConfigFailure
    \/ Discover
    \/ DiscoverThrows
    \/ ProcessHotel
    \/ Midnight
    \/ BeginDelivery
    \/ NextChunk
    \/ PostAttempt
    \/ AfterSleep
    \/ PostAll

Spec == Init /\ [][Next]_vars

\* the mains that read DRY_RUN, run with and without it
InitDryRun ==
    /\ Init
    /\ runVariant \in { "index", "part_005" }

NextDryRun ==
    \/ ConfigFailure
    \/ Discover
    \/ DiscoverThrows
    \/ ProcessHotel
    \/ BeginDelivery
    \/ PostAll

SpecDryRun == InitDryRun /\ [][NextDryRun]_vars

\* ---------------------------------------------------------------------------
\* Specification of the delivery alone: the rows are built (every hotel of the
\* run ended on a date mismatch), the webhook answers in every possible way
\* ---------------------------------------------------------------------------
MismatchResult(w) ==
    [ kind |-> "return", check_in |-> w.checkIn, check_out |-> w.checkOut,
      google_best |-> Null, google_major_best |-> Null ]

InitDeliver ==
    /\ resolverVariant = "gated"
    /\ call = NoCall /\ sessions = 0
    /\ runVariant \in RunVariants
    /\ webhookOk = TRUE
    /\ window = [ checkIn |-> [m |-> 11, d |-> 26], checkOut |-> [m |-> 11, d |-> 28] ]
    /\ \E n \in 0..MaxRows :
         /\ runVariant = "batched" => n > 0
         /\ hotels = [ k \in 1..n |-> k ]
         /\ rows = [ k \in 1..n |-> FullRow(runVariant, k, MismatchResult(window)) ]
         /\ i = n
         /\ calls = n
    /\ pc = IF runVariant = "batched" THEN "batch" ELSE "postall"
    /\ exitCode = "running"
    /\ dryRun = FALSE /\ today = Today
    /\ trace = [ k \in 1..(2 * Len(rows) + 1) |->
                   IF k = 1 THEN DiscoverEvent(runVariant, window, 1, Len(rows))
                   ELSE IF k % 2 = 0 THEN CallEvent(window, 1, FALSE)
                   ELSE SleepEvent(1000) ]
    /\ DeliveryIdle
    /\ DiscoverIdle /\ ExtractIdle /\ CalcIdle

NextDeliver ==
    \/ NextChunk
    \/ PostAttempt
    \/ AfterSleep
    \/ PostAll

SpecDeliver == InitDeliver /\ [][NextDeliver]_vars

\* the delivery with its scheduling: every step of the loop is an awaited
\* promise (a fetch that answers or rejects, a timer that fires), so a step
\* that can be taken is taken
SpecDeliverFair == InitDeliver /\ [][NextDeliver]_vars /\ WF_vars(NextDeliver)

\* ---------------------------------------------------------------------------
\* Listing discovery: getSparrowHotels.  Four versions differ in what they
\* do: scrapeSparrowBid.js ("scrapeSparrowBid"), unnamed/part_008, part_009 and
\* part_011.
\* ---------------------------------------------------------------------------
DiscoverVariants == { "scrapeSparrowBid", "part_008", "part_009", "part_011" }

MaxCap == 2
MaxPageBudget == 3
MaxSourcePages == 2

\* String.prototype.toLowerCase on the letters the model's texts use
LowerChar(c) ==
    CASE c = "I" -> "i" [] c = "N" -> "n" [] c = "H" -> "h" [] c = "R" -> "r"
      [] c = "O" -> "o" [] c = "M" -> "m" [] c = "E" -> "e" [] c = "A" -> "a"
      [] c = "G" -> "g" [] c = "K" -> "k" [] c = "Y" -> "y"
      [] OTHER -> c

toLowerCase(s) == [ k \in DOMAIN s |-> LowerChar(s[k]) ]

\* what extractCards pushes for one card that has a heading: { name, city, priceRaw }
Pool ==
    { [ name |-> << "I", "n", "n" >>, city |-> << "R", "o", "m", "e" >>, priceRaw |-> "$80" ],
      [ name |-> << "I", "N", "N" >>, city |-> << "r", "o", "m", "e" >>, priceRaw |-> "$70" ],
      [ name |-> << "H", "u", "t" >>, city |-> << "R", "o", "m", "e" >>, priceRaw |-> "$90" ] }

\* the card lists a page can render: none, one, two of different keys, two of
\* one key, in either order
CardLists ==
    { << >> } \cup { << c >> : c \in Pool }
        \cup { list \in { << c, d >> : c \in Pool, d \in Pool } : list[1] # list[2] }

\* for how many extractions a page navigated to can stay without cards
EmptyRuns == { 0, 1, 2, 3 }

Range(seq) == { seq[k] : k \in DOMAIN seq }

\* The listing site.  A page holds its cards, a "next" control that is absent
\* ("none"), disabled, enabled, or enabled without effect ("stuck": the click
\* re-renders the same page), possibly numbered pager buttons, and the number
\* of extractions after a navigation that still find the page without cards.
\* Only the last page of the source lacks an enabled next control.  Numbered
\* buttons are read by scrapeSparrowBid.js alone, on a page without a next
\* control it could click.
Pages(idx) ==
    { [ idx |-> idx, cards |-> c, next |-> n, numbered |-> b, empties |-> e ] :
        c \in CardLists,
        n \in (IF idx < sourcePages THEN { "enabled" } ELSE { "none", "disabled", "stuck" }),
        b \in (IF idx = sourcePages /\ discoverVariant = "scrapeSparrowBid"
               THEN BOOLEAN ELSE { FALSE }),
        e \in (IF idx = 1 THEN { 0 } ELSE EmptyRuns) }

\* the cards in the DOM at the n-th extraction after the navigation
Dom(vw, n) == IF n <= vw.empties THEN << >> ELSE vw.cards

KeyCaseSensitive(h) == h.name \o << "|" >> \o h.city

\* const key = `${(h.name || "").toLowerCase()}|${(h.city || "").toLowerCase()}`
Key(h) == toLowerCase(h.name) \o << "|" >> \o toLowerCase(h.city)

\* part_011's extractCardsOnPage: out.filter(...) keeps the first card of a key
RECURSIVE PageDedup(_, _)
PageDedup(list, keys) ==
    IF list = << >> THEN << >>
    ELSE IF Key(Head(list)) \in keys THEN PageDedup(Tail(list), keys)
    ELSE << Head(list) >> \o PageDedup(Tail(list), keys \cup { Key(Head(list)) })

extractCards(v, vw, n) ==
    IF v = "part_011" THEN PageDedup(Dom(vw, n), { }) ELSE Dom(vw, n)

\* pushUnique(list): results and seen after the call, and its return value
RECURSIVE pushUnique(_, _, _, _)
pushUnique(list, res, sn, cap) ==
    IF list = << >> THEN [ results |-> res, seen |-> sn, done |-> FALSE ]
    ELSE LET h == Head(list)
             key == Key(h)
         IN  IF key \in sn THEN pushUnique(Tail(list), res, sn, cap)
             ELSE IF Len(res) + 1 >= cap
                  THEN [ results |-> Append(res, h), seen |-> sn \cup { key }, done |-> TRUE ]
                  ELSE pushUnique(Tail(list), Append(res, h), sn \cup { key }, cap)

CapBreakEarly(v, count, cap) == v \in { "part_008", "part_009" } /\ count + 1 >= cap

\* part_008 and part_009 open the loop body with
\* if (results.length >= maxHotels) break;
CapBreak(v, count, cap) == v \in { "part_008", "part_009" } /\ count >= cap

\* The control the loop body clicks: an enabled next control; a disabled one
\* is skipped (part_008, part_009) or makes click() throw (the other two);
\* scrapeSparrowBid.js then falls back to a numbered pager button.
ClickKind(v, vw) ==
    IF vw.next \in { "enabled", "stuck" } THEN "next"
    ELSE IF v = "scrapeSparrowBid" /\ vw.numbered THEN "numbered"
    ELSE "none"

\* the page the click leads to: the next page of the source, or the same page
After(vw, kind) ==
    IF kind = "next" /\ vw.next = "enabled" THEN Pages(vw.idx + 1)
    ELSE { [ vw EXCEPT !.empties = 0 ] }

FirstName(list) == IF list = << >> THEN << >> ELSE list[1].name

\* page.waitForFunction(..., { timeout: 8000 }).catch(() => null) around the
\* click: part_009 has none; part_008 waits for the first heading to change;
\* the other two also accept a higher card count
WaitOutcome(v, prevCount, firstNameBefore, nv) ==
    LET now == Dom(nv, 1)
        first == FirstName(now)
        renamed == first # << >> /\ first # firstNameBefore
    IN  IF v = "part_009" THEN "none"
        ELSE IF v = "part_008" THEN (IF renamed THEN "changed" ELSE "timeout")
        ELSE IF Len(now) > prevCount \/ renamed THEN "changed" ELSE "timeout"

RetryLoopRunsTwice(n) == n < 2

\* part_009: let retries = 0; while (retries < 3) { cards = ...; if (cards.length > 0) break; retries++; }
\* after the n-th extraction found no cards, the loop runs again
RetryLoopRuns(n) == n < 3

\* calls of extractCards on the new page: one, or as many as part_009's loop makes

RECURSIVE ExtractTries(_, _, _)
ExtractTries(v, nv, n) ==
    IF v # "part_009" THEN 1
    ELSE IF Dom(nv, n) # << >> THEN n
    ELSE IF RetryLoopRuns(n) THEN ExtractTries(v, nv, n + 1)
    ELSE n

InitDiscover ==
    /\ discoverVariant \in DiscoverVariants
    /\ maxHotels \in 0..MaxCap
    /\ maxPages \in 1..MaxPageBudget
    /\ sourcePages \in 1..MaxSourcePages
    /\ view \in Pages(1)
    /\ sourceCards = Range(view.cards) /\ flaky = FALSE
    /\ dpc = "start" /\ p = 1
    /\ results = << >> /\ seen = { } /\ cards = << >> /\ clicks = << >>
    /\ tries = 0 /\ waited = "none" /\ stop = "running"
    /\ resolverVariant = "gated" /\ call = NoCall /\ sessions = 0 /\ calls = 0
    /\ window = [ checkIn |-> [m |-> 11, d |-> 26], checkOut |-> [m |-> 11, d |-> 28] ]
    /\ RunIdle /\ DeliveryIdle /\ ExtractIdle /\ CalcIdle

\* chromium.launch(), newPage(), page.goto(); then page 1: part_008 and part_009
\* first await page.waitForSelector(card), which
\* throws on a page without cards; then cards = await extractCards(); pushUnique(cards)
CollectFirstPage ==
    /\ dpc = "start"
    /\ sessions' = sessions + 1
    /\ tries' = 1
    /\ IF discoverVariant \in { "part_008", "part_009" } /\ Dom(view, 1) = << >>
       THEN /\ dpc' = "threw" /\ stop' = "threw"
            /\ UNCHANGED << results, seen, cards, p >>
       ELSE LET list == extractCards(discoverVariant, view, 1)
                r == pushUnique(list, results, seen, maxHotels)
            IN  /\ cards' = list
                /\ results' = r.results /\ seen' = r.seen
                /\ dpc' = "loop" /\ p' = 2
                /\ UNCHANGED stop
    /\ UNCHANGED << discoverVariant, maxHotels, maxPages, sourcePages, view, sourceCards,
                    flaky, clicks, waited >>
    /\ UNCHANGED << resolverVariant, call, calls, runVars, deliveryVars, extractVars, calcVars >>

\* one pass of for (let p = 2; p <= maxPages; p++) that clicks: click, wait,
\* settle, extract, pushUnique, if (done) break
Paginate ==
    /\ dpc = "loop" /\ p <= maxPages
    /\ ~CapBreak(discoverVariant, Len(results), maxHotels)
    /\ ClickKind(discoverVariant, view) # "none"
    /\ \E nv \in After(view, ClickKind(discoverVariant, view)) :
         LET n == ExtractTries(discoverVariant, nv, 1)
             list == extractCards(discoverVariant, nv, n)
             r == pushUnique(list, results, seen, maxHotels)
         IN  /\ clicks' = Append(clicks, [ p |-> p, kind |-> ClickKind(discoverVariant, view),
                                          unique |-> Len(results) ])
             /\ waited' = WaitOutcome(discoverVariant, Len(Dom(view, tries)), FirstName(cards), nv)
             /\ view' = nv /\ sourceCards' = sourceCards \cup Range(nv.cards)
             /\ flaky' = (flaky \/ nv.empties > 0)
             /\ tries' = n /\ cards' = list
             /\ results' = r.results /\ seen' = r.seen
             /\ IF r.done
                THEN \* break; await browser.close(); return results
                     /\ dpc' = "returned" /\ stop' = "maxHotels" /\ p' = p
                     /\ sessions' = sessions - 1
                ELSE dpc' = "loop" /\ p' = p + 1 /\ UNCHANGED << stop, sessions >>
    /\ UNCHANGED << discoverVariant, maxHotels, maxPages, sourcePages >>
    /\ UNCHANGED << resolverVariant, call, calls, runVars, deliveryVars, extractVars, calcVars >>

\* the loop ends without a click; await browser.close(); return results
ReturnResults ==
    /\ dpc = "loop"
    /\ \/ p > maxPages /\ stop' = "maxPages"
       \/ /\ p <= maxPages /\ CapBreak(discoverVariant, Len(results), maxHotels)
          /\ stop' = "maxHotels"
       \/ /\ p <= maxPages /\ ~CapBreak(discoverVariant, Len(results), maxHotels)
          /\ ClickKind(discoverVariant, view) = "none"
          /\ stop' = "noNext"
    /\ dpc' = "returned" /\ sessions' = sessions - 1
    /\ UNCHANGED << discoverVariant, maxHotels, maxPages, sourcePages, view, sourceCards,
                    flaky, p, results, seen, cards, clicks, tries, waited >>
    /\ UNCHANGED << resolverVariant, call, calls, runVars, deliveryVars, extractVars, calcVars >>

\* await page.goto(...) rejects (timeout, network): the exception leaves
\* getSparrowHotels before anything was extracted; nothing closes the browser
\* launched two lines above
NavigationThrows ==
    /\ dpc = "start"
    /\ sessions' = sessions + 1
    /\ dpc' = "failed" /\ stop' = "threw"
    /\ UNCHANGED << discoverVariant, maxHotels, maxPages, sourcePages, view, sourceCards,
                    flaky, p, results, seen, cards, clicks, tries, waited >>
    /\ UNCHANGED << resolverVariant, call, calls, runVars, deliveryVars, extractVars, calcVars >>

NextDiscover ==
    \/ CollectFirstPage
    \/ Paginate
    \/ ReturnResults
    \/ NavigationThrows

SpecDiscover == InitDiscover /\ [][NextDiscover]_vars

\* ---------------------------------------------------------------------------
\* The resolver's two extractions, computed from the page:
\* extractSelectedDatesPrice and extractMajorProviderPrice (fetchGoogleHotels.js;
\* part_000's extractPriceSummary computes lowestMajor the same way)
\* ---------------------------------------------------------------------------
MaxAnchors == 2
MaxBlocks == 2

IsDigit(c) == \E d \in 1..10 : DigitChar[d] = c
DigitVal(c) == (CHOOSE d \in 1..10 : DigitChar[d] = c) - 1

\* priceRegex = /\$\s?(\d[\d,]*)/ : where the group of the first match starts
\* in t, 0 without a match
GroupStart(t) ==
    LET at(k) == IF k <= Len(t) THEN t[k] ELSE ""
        hit(k) == at(k) = "$" /\ (IsDigit(at(k + 1)) \/ (at(k + 1) = " " /\ IsDigit(at(k + 2))))
    IN  IF \E k \in 1..Len(t) : hit(k)
        THEN LET k == CHOOSE k \in 1..Len(t) : hit(k) /\ \A j \in 1..(k - 1) : ~hit(j)
             IN  IF IsDigit(at(k + 1)) THEN k + 1 ELSE k + 2
        ELSE 0

\* Number(m[1].replace(/,/g, "")) for the group [\d,]* that starts at k
RECURSIVE GroupValue(_, _, _)
GroupValue(t, k, acc) ==
    IF k > Len(t) THEN acc
    ELSE IF t[k] = "," THEN GroupValue(t, k + 1, acc)
    ELSE IF IsDigit(t[k]) THEN GroupValue(t, k + 1, 10 * acc + DigitVal(t[k]))
    ELSE acc

\* s.trim(), for blanks
RECURSIVE trim(_)
trim(s) ==
    IF s = << >> THEN s
    ELSE IF Head(s) = " " THEN trim(Tail(s))
    ELSE IF s[Len(s)] = " " THEN trim(SubSeq(s, 1, Len(s) - 1))
    ELSE s

\* t.replace(/\s+/g, " ").trim()
RECURSIVE CollapseBlanks(_)
CollapseBlanks(s) ==
    IF Len(s) < 2 THEN s
    ELSE IF s[1] = " " /\ s[2] = " " THEN CollapseBlanks(Tail(s))
    ELSE << s[1] >> \o CollapseBlanks(Tail(s))

\* parsePrice(text): the first dollar amount of the text, or null
parsePrice(text) ==
    LET t == trim(CollapseBlanks(text))
    IN  IF text = << >> \/ GroupStart(t) = 0 THEN Null
        ELSE Num(GroupValue(t, GroupStart(t), 0))

HotelName == << "I", "n", "n" >>

\* aria-labels of result anchors, and the span/div texts inside an anchor or a card
Labels == { << "I", "n", "n", ",", " ", "R", "o", "m", "e" >>, << "H", "U", "T" >>, << >> }

TextLists ==
    { << >>,
      << << "G", "r", "e", "a", "t", " ", "d", "e", "a", "l" >> >>,
      << << "$", "1", "2", "0" >> >>,
      << << "$", "1", ",", "2", "0", "0" >>, << "$", "8", "0", " ", "n", "i", "g", "h", "t", "l", "y" >> >>,
      << << "G", "r", "e", "a", "t", " ", "d", "e", "a", "l" >>, << "$", " ", "9", "5" >> >>,
      << << "$", "1", "5", "0" >>, << "$", "7", "0", " ", "N", "i", "g", "h", "t", "l", "y" >> >> }

Anchors == [ label : Labels, texts : TextLists ]

\* a result card outside any labelled anchor: its title and its texts
Containers == [ title : { << "I", "n", "n" >>, << "H", "U", "T" >> }, texts : { << >>, << << "$", "9", "5" >> >> } ]

BodyTexts == { << >>, << "f", "r", "o", "m", " ", "$", "6", "0" >> }

\* the pages extractSelectedDatesPrice is run on
BestDoms ==
    [ kind : { "best" },
      anchors : UNION { [ 1..n -> Anchors ] : n \in 0..MaxAnchors },
      containers : { << >> } \cup { << c >> : c \in Containers },
      body : BodyTexts ]

\* norm(s) = (s || "").toLowerCase().replace(/\s+/g, " ").trim()
norm(s) == trim(CollapseBlanks(toLowerCase(s)))

\* texts.push(t) for the span/div texts that priceRegex matches
RECURSIVE PricedTexts(_)
PricedTexts(texts) ==
    IF texts = << >> THEN << >>
    ELSE IF parsePrice(Head(texts)) # Null
         THEN << Head(texts) >> \o PricedTexts(Tail(texts))
         ELSE PricedTexts(Tail(texts))

\* mutant of IsNightly: the marker has to be written in lower case
IsNightlyCaseSensitive(t) == Includes(t, << "n", "i", "g", "h", "t", "l", "y" >>)

\* /nightly/i.test(t)
IsNightly(t) == Includes(toLowerCase(t), << "n", "i", "g", "h", "t", "l", "y" >>)

\* texts.find((t) => /nightly/i.test(t) && priceRegex.test(t)) || texts[0]
RECURSIVE ChosenText(_, _)
ChosenText(texts, first) ==
    IF texts = << >> THEN first
    ELSE IF IsNightly(Head(texts))
         THEN Head(texts)
         ELSE ChosenText(Tail(texts), first)

\* mutant of LabelMatches: the label has to equal the name
LabelMatchesExact(label, target) == norm(label) = target

\* labelNorm.includes(target) || target.includes(labelNorm)
LabelMatches(label, target) ==
    Includes(norm(label), target) \/ Includes(target, norm(label))

\* for (const a of anchors) { ... return num; } return null;
RECURSIVE ScanAnchors(_, _)
ScanAnchors(anchors, target) ==
    IF anchors = << >> THEN Null
    ELSE LET a == Head(anchors)
             texts == PricedTexts(a.texts)
         IN  IF ~LabelMatches(a.label, target) \/ texts = << >>
             THEN ScanAnchors(Tail(anchors), target)
             ELSE parsePrice(ChosenText(texts, texts[1]))

extractSelectedDatesPrice(d, hotelName) ==
    IF hotelName = << >> THEN Null ELSE ScanAnchors(d.anchors, norm(hotelName))

majorBrands ==
    << << "e", "x", "p", "e", "d", "i", "a" >>,
       << "b", "o", "o", "k", "i", "n", "g", ".", "c", "o", "m" >>,
       << "p", "r", "i", "c", "e", "l", "i", "n", "e" >>,
       << "k", "a", "y", "a", "k" >>,
       << "h", "o", "t", "e", "l", "s", ".", "c", "o", "m" >>,
       << "o", "r", "b", "i", "t", "z" >>,
       << "t", "r", "a", "v", "e", "l", "o", "c", "i", "t", "y" >> >>

\* a provider block (.ADs2Tc): the text of its h3.RjilDd, or none, and the
\* texts of its span.iqYCVb
NoNameEl == << "<", "n", "o", "n", "e", ">" >>

ProviderNames == { << "E", "x", "p", "e", "d", "i", "a", ".", "c", "o", "m" >>, << "K", "A", "Y", "A", "K" >>, << "A", "g", "o", "d", "a" >>, NoNameEl }

SpanLists ==
    { << >>,
      << << "N", "/", "A" >> >>,
      << << "$", "9", "5" >> >>,
      << << "$", "1", ",", "2", "0", "0" >> >>,
      << << "$", "1", ",", "2", "0", "0" >>, << "$", "9", "5" >> >>,
      << << "$", " ", "8", "0" >>, << "N", "/", "A" >>, << "$", "1", "2", "0" >> >> }

Blocks == [ name : ProviderNames, spans : SpanLists ]

\* the pages extractMajorProviderPrice is run on
MajorDoms ==
    [ kind : { "major" },
      blocks : UNION { [ 1..n -> Blocks ] : n \in 0..MaxBlocks } ]

\* const isMajor = majorBrands.some((brand) => providerName.includes(brand))
isMajor(block) ==
    /\ block.name # NoNameEl
    /\ \E k \in 1..Len(majorBrands) : Includes(toLowerCase(block.name), majorBrands[k])

\* blockPrices: the finite parsePrice of every span, in order
RECURSIVE blockPrices(_)
blockPrices(spans) ==
    IF spans = << >> THEN << >>
    ELSE IF parsePrice(Head(spans)) # Null
         THEN << parsePrice(Head(spans)).num >> \o blockPrices(Tail(spans))
         ELSE blockPrices(Tail(spans))

FirstOfList(list) == list[1]

\* Math.min(...list) of a non-empty list
MathMin(list) == CHOOSE v \in Range(list) : \A w \in Range(list) : v <= w

\* majorPrices: minForProvider of every major block that has a price
RECURSIVE majorPrices(_)
majorPrices(blocks) ==
    IF blocks = << >> THEN << >>
    ELSE LET b == Head(blocks)
         IN  IF isMajor(b) /\ blockPrices(b.spans) # << >>
             THEN << MathMin(blockPrices(b.spans)) >> \o majorPrices(Tail(blocks))
             ELSE majorPrices(Tail(blocks))

extractMajorProviderPrice(d) ==
    IF majorPrices(d.blocks) = << >> THEN Null ELSE Num(MathMin(majorPrices(d.blocks)))

\* the pages both reference prices of one resolver call are read from: at most
\* one labelled anchor for the hotel, and the provider blocks
\* the provider rows of the pages both prices are read from: a major and a
\* minor provider, without a price, with one, with several
SummaryBlocks ==
    [ name : { << "E", "x", "p", "e", "d", "i", "a", ".", "c", "o", "m" >>, << "A", "g", "o", "d", "a" >> },
      spans : { << >>,
                << << "$", "9", "5" >> >>,
                << << "$", "1", ",", "2", "0", "0" >>, << "$", "9", "5" >> >>,
                << << "$", " ", "8", "0" >>, << "N", "/", "A" >>, << "$", "1", "2", "0" >> >> } ]

SummaryDoms ==
    [ kind : { "summary" },
      anchors : { << >> } \cup { << a >> : a \in [ label : { << "I", "n", "n", ",", " ", "R", "o", "m", "e" >> }, texts : TextLists ] },
      blocks : UNION { [ 1..n -> SummaryBlocks ] : n \in 0..MaxBlocks } ]

\* allPrices of extractPriceSummary: the finite parsePrice of every span.iqYCVb
\* of the document, which are the spans of the provider rows
RECURSIVE allPrices(_)
allPrices(blocks) ==
    IF blocks = << >> THEN << >>
    ELSE blockPrices(Head(blocks).spans) \o allPrices(Tail(blocks))

\* extractPriceSummary(page) of part_000: { lowestAll, lowestMajor }
extractPriceSummary(d) ==
    [ lowestAll |-> IF allPrices(d.blocks) = << >> THEN Null
                    ELSE Num(MathMin(allPrices(d.blocks))),
      lowestMajor |-> extractMajorProviderPrice(d) ]

\* the two reference prices of a result: google_best and google_major_best as
\* fetchGoogleHotels.js:291-308 fills them, and as part_000:258-269 does
ReferencePair(v, d) ==
    IF v = "part_000"
    THEN [ google_best |-> extractPriceSummary(d).lowestAll,
           google_major_best |-> extractPriceSummary(d).lowestMajor ]
    ELSE [ google_best |-> extractSelectedDatesPrice(d, HotelName),
           google_major_best |-> extractMajorProviderPrice(d) ]

InitExtract ==
    /\ dom = [ kind |-> "none" ] /\ extracted = [ kind |-> "none" ]
    /\ resolverVariant = "gated" /\ call = NoCall /\ sessions = 0 /\ calls = 0
    /\ window = [ checkIn |-> [m |-> 11, d |-> 26], checkOut |-> [m |-> 11, d |-> 28] ]
    /\ RunIdle /\ DeliveryIdle /\ DiscoverIdle /\ CalcIdle

\* const google_best = await extractSelectedDatesPrice(page, hotelName), on the
\* page one call finds
ExtractBest ==
    /\ dom.kind = "none"
    /\ \E d \in BestDoms :
         /\ dom' = d
         /\ extracted' = [ kind |-> "best", value |-> extractSelectedDatesPrice(d, HotelName) ]
    /\ UNCHANGED << resolverVars, runVars, deliveryVars, discoverVars, calcVars >>

\* google_major_best = await extractMajorProviderPrice(page)
ExtractMajor ==
    /\ dom.kind = "none"
    /\ \E d \in MajorDoms :
         /\ dom' = d
         /\ extracted' = [ kind |-> "major", value |-> extractMajorProviderPrice(d) ]
    /\ UNCHANGED << resolverVars, runVars, deliveryVars, discoverVars, calcVars >>

\* both reference prices read from one page, by either version of the resolver
ExtractPair ==
    /\ dom.kind = "none"
    /\ \E d \in SummaryDoms, v \in { "fetchGoogleHotels", "part_000" } :
         /\ dom' = d
         /\ extracted' = [ kind |-> "pair", version |-> v, value |-> ReferencePair(v, d) ]
    /\ UNCHANGED << resolverVars, runVars, deliveryVars, discoverVars, calcVars >>

NextExtract ==
    \/ ExtractBest
    \/ ExtractMajor
    \/ ExtractPair

SpecExtract == InitExtract /\ [][NextExtract]_vars

\* ---------------------------------------------------------------------------
\* Helper computations of the run, each evaluated on its own: the row
\* arithmetic of the main loop (index.js:58-131, part_005:69-122), the date
\* window (index.js:8-36, part_006:100-103) and cleanCity
\* (fetchGoogleHotels.js:7-13)
\* ---------------------------------------------------------------------------
\* a text value, kept apart from null
Text(s) == [ text |-> s ]

\* priceRaw of a card: what dollars() matched ("$", at most one space, digits
\* and commas), or null
PriceRaws == { Null, Text(<< "$", "0" >>), Text(<< "$", "1", "0", "0" >>), Text(<< "$", " ", "1", ",", "2", "0", "0" >>) }

\* what the resolver returned as google_best / google_major_best
ReferencePrices == { Null, Num(0), Num(80), Num(150) }

\* s.replace(/[^0-9.]/g, "")
RECURSIVE StripNonNumeric(_)
StripNonNumeric(s) ==
    IF s = << >> THEN << >>
    ELSE IF IsDigit(Head(s)) \/ Head(s) = "."
         THEN << Head(s) >> \o StripNonNumeric(Tail(s))
         ELSE StripNonNumeric(Tail(s))

\* Number(t) for a text of decimal digits; Number("") is 0
RECURSIVE DecimalValue(_, _)
DecimalValue(t, acc) ==
    IF t = << >> THEN acc ELSE DecimalValue(Tail(t), 10 * acc + DigitVal(Head(t)))

\* const sbPrice = h.priceRaw ? Number(h.priceRaw.replace(/[^0-9.]/g, "")) : null
SbPrice(priceRaw) ==
    IF priceRaw = Null \/ priceRaw.text = << >> THEN Null
    ELSE Num(DecimalValue(StripNonNumeric(priceRaw.text), 0))

\* the quotient a / b of two numbers, kept exact
Quot(a, b) == [ over |-> a, under |-> b ]

\* advAll$ / advMajor$: reference - sbPrice when both are != null
AdvCurrency(sbPrice, reference) ==
    IF sbPrice # Null /\ reference # Null THEN Num(reference.num - sbPrice.num) ELSE Null

\* mutant of AdvFraction: the test reference > 0 left out
AdvFractionUnguarded(sbPrice, reference) ==
    IF sbPrice # Null /\ reference # Null
    THEN Quot(reference.num - sbPrice.num, reference.num)
    ELSE Null

\* advAllPct / advMajorPct: adv$ / reference when both are != null and reference > 0
AdvFraction(sbPrice, reference) ==
    IF sbPrice # Null /\ reference # Null /\ reference.num > 0
    THEN Quot(reference.num - sbPrice.num, reference.num)
    ELSE Null

\* advPct != null ? advPct : ""
OrBlank(x) == IF x # Null THEN x ELSE Blank

\* the price columns of the row built for listing h and resolver result gh
BuildRow(h, gh) ==
    LET sbPrice == SbPrice(h.priceRaw)
        googleBest == gh.google_best
        googleMajorBest == gh.google_major_best
    IN  [ sb_price |-> num(sbPrice),
          google_best |-> num(googleBest),
          google_major_best |-> num(googleMajorBest),
          adv_all |-> num(AdvCurrency(sbPrice, googleBest)),
          adv_all_pct |-> OrBlank(AdvFraction(sbPrice, googleBest)),
          adv_major |-> num(AdvCurrency(sbPrice, googleMajorBest)),
          adv_major_pct |-> OrBlank(AdvFraction(sbPrice, googleMajorBest)) ]

\* process.env.CHECKIN_OFFSET_DAYS and process.env.NIGHTS: unset, or a text
OffsetTexts == { Null, Text(<< "0" >>), Text(<< "x" >>) }
NightsTexts == { Null, Text(<< >>), Text(<< "0" >>), Text(<< "1" >>), Text(<< "-", "1" >>), Text(<< "x" >>) }

IsDecimal(t) == t # << >> /\ \A k \in 1..Len(t) : IsDigit(t[k])

\* Number(process.env.X || dflt): unset and "" give the default, a decimal
\* text with or without sign its value, any other text NaN
NumberOr(e, dflt) ==
    IF e = Null \/ e.text = << >> THEN Num(dflt)
    ELSE IF IsDecimal(e.text) THEN Num(DecimalValue(e.text, 0))
    ELSE IF Head(e.text) = "-" /\ IsDecimal(Tail(e.text))
         THEN Num(0 - DecimalValue(Tail(e.text), 0))
    ELSE NaN

\* the date window of a run that starts on day now; in part_006 the two
\* ends come from two readings of the clock, midnight days apart
DateWindow(v, now, midnight, offsetText, nightsText) ==
    LET CHECKIN_OFFSET_DAYS == NumberOr(offsetText, 7)
        NIGHTS == NumberOr(nightsText, 2)
        checkIn == AddDays(now, CHECKIN_OFFSET_DAYS)
    IN  [ checkIn |-> checkIn,
          checkOut |-> IF v = "index" THEN AddDays(checkIn, NIGHTS)
                       ELSE AddDays(AddDays(now, Num(midnight)),
                                    Plus(CHECKIN_OFFSET_DAYS, NIGHTS)) ]

TwoDigits(n) == << DigitChar[(n \div 10) + 1], DigitChar[(n % 10) + 1] >>

\* .format("YYYY-MM-DD")
FormatIso(date) ==
    IF date = InvalidDate THEN << "I", "n", "v", "a", "l", "i", "d", " ", "D", "a", "t", "e" >>
    ELSE << "2", "0", "2", "5", "-" >> \o TwoDigits(date.m) \o << "-" >> \o TwoDigits(date.d)

\* if (!checkIn || !checkOut) throw: the resolver takes any two non-empty texts
WindowAccepted(w) == FormatIso(w.checkIn) # << >> /\ FormatIso(w.checkOut) # << >>

\* location lines of listing cards
CityTexts ==
    { << >>, << "R", "o", "m", "e" >>, << "R", "o", "m", "e", " ", "-", " ", "5", " ", "m", "i", " ", "a", "w", "a", "y" >>, << " ", "R", "o", "m", "e", " ", "-", " ", "7", ".", "5", " ", "m", "i", " ", "a", "w", "a", "y" >>,
      << "S", "t", " ", "-", " ", "L", "o", " ", "-", " ", "5", " ", "m", "i", " ", "a", "w", "a", "y" >>, << "S", "t", " ", "-", " ", "L", "o" >> }

\* where the first occurrence of sep starts in s, 0 without one
IndexOf(s, sep) ==
    IF Includes(s, sep)
    THEN CHOOSE k \in 1..Len(s) :
             /\ k + Len(sep) - 1 <= Len(s)
             /\ SubSeq(s, k, k + Len(sep) - 1) = sep
             /\ \A j \in 1..(k - 1) : SubSeq(s, j, j + Len(sep) - 1) # sep
    ELSE 0

\* s.split(sep)[0]
SplitFirst(s, sep) == IF IndexOf(s, sep) = 0 THEN s ELSE SubSeq(s, 1, IndexOf(s, sep) - 1)

\* cleanCity(cityRaw)
cleanCity(cityRaw) ==
    IF cityRaw = << >> THEN << >> ELSE trim(SplitFirst(cityRaw, << " ", "-", " " >>))

\* texts handed to the currency parsers
PriceTexts ==
    { << >>, << "n", "o", " ", "p", "r", "i", "c", "e" >>, << "$", "1", ",", "2", "3", "4" >>, << "$", " ", "8", "0" >>, << "$", " ", " ", "9", "0" >>, << "2", " ", "n", "i", "g", "h", "t", "s", " ", "$", "1", "5", "0" >>,
      << "$", "x", " ", "$", "7", "5" >>, << "1", "2", "0" >> }

\* where /(\d[\d,]*)/ finds its digit group in t: the first digit; 0 without one
DigitMatch(t) ==
    LET hits == { k \in 1..Len(t) : IsDigit(t[k]) }
    IN  IF hits = {} THEN 0 ELSE CHOOSE h \in hits : \A g \in hits : h <= g

\* dollarsToNumber(s)
dollarsToNumber(s) ==
    IF DigitMatch(s) = 0 THEN Null ELSE Num(GroupValue(s, DigitMatch(s), 0))

InitCalc ==
    /\ CalcIdle
    /\ resolverVariant = "gated" /\ call = NoCall /\ sessions = 0 /\ calls = 0
    /\ window = [ checkIn |-> [m |-> 11, d |-> 26], checkOut |-> [m |-> 11, d |-> 28] ]
    /\ RunIdle /\ DeliveryIdle /\ DiscoverIdle /\ ExtractIdle

\* the row arithmetic of one pass of the main loop
RowMath ==
    /\ args.kind = "none"
    /\ \E raw \in PriceRaws, best \in ReferencePrices, major \in ReferencePrices :
         /\ args' = [ kind |-> "row", priceRaw |-> raw, google_best |-> best,
                      google_major_best |-> major ]
         /\ value' = [ kind |-> "row",
                       row |-> BuildRow([ priceRaw |-> raw ],
                                        [ google_best |-> best, google_major_best |-> major ]) ]
    /\ UNCHANGED << resolverVars, runVars, deliveryVars, discoverVars, extractVars >>

\* main computes checkIn and checkOut
ComputeWindow ==
    /\ args.kind = "none"
    /\ \E v \in RunVariants, midnight \in { 0, 1 }, o \in OffsetTexts, n \in NightsTexts :
         LET w == DateWindow(v, Today, midnight, o, n)
         IN  /\ args' = [ kind |-> "window", v |-> v, midnight |-> midnight,
                          CHECKIN_OFFSET_DAYS |-> o, NIGHTS |-> n ]
             /\ value' = [ kind |-> "window", checkIn |-> w.checkIn, checkOut |-> w.checkOut,
                           accepted |-> WindowAccepted(w) ]
    /\ UNCHANGED << resolverVars, runVars, deliveryVars, discoverVars, extractVars >>

\* cleanCity applied once and applied to its own result
CleanCity ==
    /\ args.kind = "none"
    /\ \E raw \in CityTexts :
         /\ args' = [ kind |-> "city", cityRaw |-> raw ]
         /\ value' = [ kind |-> "city", once |-> cleanCity(raw),
                       twice |-> cleanCity(cleanCity(raw)) ]
    /\ UNCHANGED << resolverVars, runVars, deliveryVars, discoverVars, extractVars >>

\* both currency parsers applied to one text
ParseCurrency ==
    /\ args.kind = "none"
    /\ \E text \in PriceTexts :
         /\ args' = [ kind |-> "parse", text |-> text ]
         /\ value' = [ kind |-> "parse", parsePrice |-> parsePrice(text),
                       dollarsToNumber |-> dollarsToNumber(text) ]
    /\ UNCHANGED << resolverVars, runVars, deliveryVars, discoverVars, extractVars >>

\* the listing page maybeClickForUrls works on: the address of the listing, the
\* address the "Bid or Book Now" button of card k leads to, and the link card
\* k carries when it has an <a>
ListingUrl == "/deals"
CardAddress(k) == IF k = 1 THEN "/deal/1" ELSE "/deal/2"
CardLink(k) == IF k = 1 THEN "/link/1" ELSE "/link/2"

\* pageItems of extractCardsOnPage: item k is read from card k, and has the
\* card's link as url or ""
PageItems ==
    { [ k \in 1..n |-> [ name |-> IF k = 1 THEN "Inn" ELSE "Hut", city |-> "Rome",
                         priceRaw |-> "$100", url |-> IF linked[k] THEN CardLink(k) ELSE "" ] ] :
        n \in 1..2, linked \in [ 1..2 -> BOOLEAN ] }

\* page.locator(`text=Bid or Book Now`).first(): the button of the first card
\* of the page, whichever item the loop is at
ClickedCard(k) == 1

\* one pass of for (const it of items): it.url is left alone when set; else the
\* button is clicked and, if the address changed, it.url = newUrl; page.goBack()
ItemAfterClick(it, k, navigates) ==
    IF it.url # "" THEN it
    ELSE LET old == ListingUrl
             newUrl == IF navigates THEN CardAddress(ClickedCard(k)) ELSE old
         IN  IF newUrl # old THEN [ it EXCEPT !.url = newUrl ] ELSE it

\* maybeClickForUrls(page, items, fetchUrls, settleMs): items after the call
maybeClickForUrls(items, fetchUrls, navigates) ==
    IF ~fetchUrls THEN items
    ELSE [ k \in DOMAIN items |-> ItemAfterClick(items[k], k, navigates[k]) ]

\* await maybeClickForUrls(page, pageItems, fetchUrls, settleMs)
ClickForUrls ==
    /\ args.kind = "none"
    /\ \E items \in PageItems, fetchUrls \in BOOLEAN, navigates \in [ 1..2 -> BOOLEAN ] :
         /\ args' = [ kind |-> "urls", items |-> items, fetchUrls |-> fetchUrls,
                      navigates |-> navigates ]
         /\ value' = [ kind |-> "urls", items |-> maybeClickForUrls(items, fetchUrls, navigates) ]
    /\ UNCHANGED << resolverVars, runVars, deliveryVars, discoverVars, extractVars >>

NextCalc ==
    \/ RowMath
    \/ ComputeWindow
    \/ CleanCity
    \/ ParseCurrency
    \/ ClickForUrls

SpecCalc == InitCalc /\ [][NextCalc]_vars

\* ===========================================================================
\* Claims
\* ===========================================================================
\* vocabulary of the claims, stated without the operators of the model
Is2xx(resp) == DOMAIN resp = { "status" } /\ resp.status \in 200..299
Is429or5xx(resp) == DOMAIN resp = { "status" } /\ (resp.status = 429 \/ resp.status \in 500..599)
IsNetErr(resp) == DOMAIN resp = { "neterr" }
IsOtherStatus(resp) == DOMAIN resp = { "status" } /\ ~Is2xx(resp) /\ ~Is429or5xx(resp)

Last(seq) == seq[Len(seq)]
AllBut(seq) == SubSeq(seq, 1, Len(seq) - 1)
Every(seq, P(_)) == \A k \in 1..Len(seq) : P(seq[k])

\* the current batch has left postRowsChunk
BatchOver == pc \in { "batch", "exit" } /\ Len(outcomes) = Len(sent)

\* the call got as far as reading the picker's inputs back
ReadBack(c) ==
    c.kind = "call" /\ c.env.failAt \notin { "launch", "newPage", "goto", "setDates" }

StepsAfterGate == { "scroll", "extractBest", "countViewPrices", "viewPrices", "extractMajor" }

\* C1: whenever the read-back check-in text does not contain the requested
\* check-in short form, or the read-back check-out text does not contain the
\* requested check-out short form, the call returns google_best = null and
\* google_major_best = null and executes no scroll, no extraction and no
\* 'View prices' click.
C1_DateMismatchGate ==
    ( /\ ReadBack(call)
      /\ \/ ~Includes(UiText(UiPrefix, call.env.shownIn), FormatShort(call.checkIn))
         \/ ~Includes(UiText(UiPrefix, call.env.shownOut), FormatShort(call.checkOut)) )
    => /\ call.result.kind = "return"
       /\ call.result.google_best = Null
       /\ call.result.google_major_best = Null
       /\ \A k \in 1..Len(call.steps) : call.steps[k] \notin StepsAfterGate

\* C2: the resolver of fetchGoogleHotels.js returns a non-null google_best or
\* google_major_best only if the picker displays the requested check-in date
\* and the requested check-out date (same month, same day of month).
C2_NoPriceAgainstWrongDates ==
    ( /\ resolverVariant = "gated"
      /\ call.kind = "call" /\ call.result.kind = "return"
      /\ (call.result.google_best # Null \/ call.result.google_major_best # Null) )
    => /\ call.env.shownIn = call.checkIn
       /\ call.env.shownOut = call.checkOut

\* C3: a resolver call that throws leaves a row for that property with no
\* reference price, the run is not ended by it, and when the loop is over the
\* resolver has been invoked for every property.
C3_ResolverFailureIsolated ==
    /\ (call.kind = "call" /\ call.result.kind = "throw")
         => /\ exitCode # "exit 1"
            /\ Len(rows) = calls
            /\ rows[calls].property = hotels[calls]
            /\ rows[calls].google_best = Blank
    /\ (pc \notin { "start", "loop" } /\ Len(hotels) > 0)
         => calls = Len(hotels) /\ Len(rows) = Len(hotels)

\* C4: a batch answered by k retryable statuses (429 or 5xx) and then a 2xx,
\* k < MAX_RETRIES, has had exactly k+1 POST attempts, is delivered, and is
\* not POSTed again.
C4_RetryThenSuccess ==
    ( /\ runVariant = "batched" /\ Len(responses) >= 1
      /\ Is2xx(Last(responses))
      /\ Every(AllBut(responses), Is429or5xx)
      /\ Len(responses) - 1 < 4 )
    => /\ BatchOver
       /\ attempt = Len(responses)
       /\ Last(outcomes) = [ result |-> "delivered", posts |-> Len(responses) ]

C4_Witness ==
    /\ runVariant = "batched" /\ Len(responses) = 3
    /\ Is429or5xx(responses[1]) /\ Is429or5xx(responses[2]) /\ Is2xx(responses[3])
    /\ BatchOver
    /\ Last(outcomes) = [ result |-> "delivered", posts |-> 3 ]

\* C5: a batch that is answered with a retryable status (429 or 5xx) every time
\* gets exactly MAX_RETRIES = 4 POST attempts and ends abandoned, and the loop
\* goes on to the next batch: that batch is sliced and POSTed, never skipped.
C5_Abandonment ==
    runVariant = "batched" =>
      /\ (Len(responses) >= 1 /\ Every(responses, Is429or5xx))
           => /\ Len(responses) <= 4
              /\ pc \in { "batch", "exit" }
                   => /\ Len(responses) = 4
                      /\ Len(outcomes) = Len(sent)
                      /\ Last(outcomes) = [ result |-> "abandoned", posts |-> 4 ]
      /\ \A j \in 1..Len(outcomes) :
           (outcomes[j].result = "abandoned" /\ j * 20 < Len(rows))
             => \/ pc = "batch" /\ Len(sent) = j /\ chunkStart = j * 20 /\ ENABLED NextChunk
                \/ /\ Len(sent) > j
                   /\ sent[j + 1] = SubSeq(rows, j * 20 + 1, Min((j + 1) * 20, Len(rows)))
                   /\ (Len(outcomes) > j => outcomes[j + 1].posts >= 1)
                   /\ (Len(outcomes) = j => pc \in { "post", "sleep" })

C5_Witness ==
    /\ runVariant = "batched" /\ Len(outcomes) = 2
    /\ outcomes[1] = [ result |-> "abandoned", posts |-> 4 ]
    /\ outcomes[2].result = "delivered"
    /\ Len(sent) = 2

\* C6 as stated: a batch that met a status other than 2xx, 429 and 5xx is
\* retried up to MAX_RETRIES attempts, and ends undelivered only after the
\* bound is reached.
C6_OtherStatusRetried ==
    runVariant = "batched" =>
      \A j \in 1..Len(outcomes) :
        outcomes[j].result # "delivered" => outcomes[j].posts = 4

\* C6 amended: a status other than 2xx, 429 and 5xx ends the batch at once: no
\* backoff sleep follows that attempt, no further attempt is made, the batch
\* ends undelivered with the attempts made so far, and the loop goes on.
C6_OtherStatusGivesUp ==
    ( /\ runVariant = "batched" /\ Len(responses) >= 1
      /\ IsOtherStatus(Last(responses)) )
    => /\ BatchOver
       /\ Last(outcomes) = [ result |-> "rejected", posts |-> Len(responses) ]
       /\ attempt = Len(responses)
       /\ chunkStart = Len(outcomes) * 20
       /\ ~ \E k \in 1..Len(delays) :
              delays[k].chunk = Len(outcomes) /\ delays[k].attempt = Len(responses)

C6_Witness ==
    /\ runVariant = "batched" /\ Len(responses) = 2
    /\ Is429or5xx(responses[1]) /\ IsOtherStatus(responses[2])
    /\ Last(outcomes) = [ result |-> "rejected", posts |-> 2 ]
    /\ pc = "batch"

\* C7: a network exception of a POST attempt never leaves postRowsChunk: a
\* backoff sleep follows it, then another attempt while fewer than MAX_RETRIES
\* were made, and after the MAX_RETRIES-th the batch is abandoned and the
\* function returns normally.
C7_NetworkErrorContained ==
    ( /\ runVariant = "batched" /\ Len(responses) >= 1
      /\ IsNetErr(Last(responses)) )
    => /\ exitCode # "exit 1"
       /\ Len(responses) <= 4
       /\ \E k \in 1..Len(delays) :
            delays[k].chunk = Len(sent) /\ delays[k].attempt = Len(responses)
       /\ \/ pc = "sleep" /\ attempt = Len(responses)
          \/ pc = "post" /\ attempt = Len(responses) + 1 /\ Len(responses) < 4
          \/ /\ BatchOver /\ Len(responses) = 4
             /\ Last(outcomes) = [ result |-> "abandoned", posts |-> 4 ]

C7_Witness ==
    /\ runVariant = "batched" /\ Len(responses) = 4
    /\ Every(responses, IsNetErr)
    /\ pc = "exit" /\ exitCode = "exit 0"
    /\ Last(outcomes) = [ result |-> "abandoned", posts |-> 4 ]

\* C8: whatever the webhook answers, every batch gets at least one POST attempt
\* and the run ends with overall completion, never with the fatal exit code.
C8_DeliveryNeverAborts ==
    /\ (Len(sent) >= 1 \/ pc = "postall" \/ pc = "batch") => exitCode # "exit 1"
    /\ pc = "exit" /\ exitCode = "exit 0"
         => /\ Len(outcomes) = Len(sent)
            /\ \A j \in 1..Len(outcomes) : outcomes[j].posts >= 1

RECURSIVE Concat(_)
Concat(seqs) == IF seqs = << >> THEN << >> ELSE seqs[1] \o Concat(Tail(seqs))

\* C9: the batches are ceil(N/B) non-empty slices of at most B = 20 rows, all
\* but the last of exactly B rows, and their concatenation in POST order is the
\* row list; while the loop runs, it is the list's prefix up to the loop index.
C9_BatchingPartition ==
    runVariant = "batched" =>
      /\ \A j \in 1..Len(sent) :
           /\ Len(sent[j]) >= 1 /\ Len(sent[j]) <= 20
           /\ j < Len(sent) => Len(sent[j]) = 20
      /\ Concat(sent) = SubSeq(rows, 1, Len(Concat(sent)))
      /\ pc = "exit"
           => /\ Concat(sent) = rows
              /\ Len(sent) * 20 >= Len(rows)
              /\ (Len(sent) - 1) * 20 < Len(rows)

C9_Witness ==
    /\ runVariant = "batched" /\ pc = "exit"
    /\ Len(rows) = 41 /\ Len(sent) = 3
    /\ Len(sent[3]) = 1

\* C10: the sleep after failed attempt a of a batch lasts 2000 * 2^(a-1) ms,
\* after a 429/5xx answer as after a network exception; the sleeps of one
\* batch are 2000, 4000, 8000, ... and each batch starts again at 2000.
BackoffTable == << 2000, 4000, 8000, 16000 >>

C10_ExponentialBackoff ==
    runVariant = "batched" =>
      /\ \A k \in 1..Len(delays) :
           /\ delays[k].attempt \in 1..4
           /\ delays[k].ms = BackoffTable[delays[k].attempt]
           /\ \/ k = 1
              \/ delays[k - 1].chunk < delays[k].chunk
              \/ /\ delays[k - 1].chunk = delays[k].chunk
                 /\ delays[k].attempt = delays[k - 1].attempt + 1
                 /\ delays[k].ms = 2 * delays[k - 1].ms
           /\ (k = 1 \/ delays[k - 1].chunk < delays[k].chunk)
                => delays[k].attempt = 1 /\ delays[k].ms = 2000
      /\ pc = "sleep"
           => /\ Len(delays) >= 1
              /\ Last(delays).chunk = Len(sent)
              /\ Last(delays).attempt = Len(responses)
              /\ (Is429or5xx(Last(responses)) \/ IsNetErr(Last(responses)))

C10_Witness ==
    /\ runVariant = "batched" /\ Len(delays) = 5
    /\ delays[3] = [ chunk |-> 1, attempt |-> 3, ms |-> 8000 ]
    /\ delays[4] = [ chunk |-> 2, attempt |-> 1, ms |-> 2000 ]
    /\ IsNetErr(responses[1]) /\ Is429or5xx(responses[2])
    /\ pc = "sleep"

\* ---------------------------------------------------------------------------
\* Claims about listing discovery
\* ---------------------------------------------------------------------------
\* getSparrowHotels has returned its list
Returned == dpc = "returned"

\* C11: the list getSparrowHotels returns never holds more than maxHotels
\* candidates, whatever the pages render and whatever maxHotels and maxPages
\* are, also when page 1 alone renders maxHotels or more unique cards.
C11_DiscoveryCap == Returned => Len(results) <= maxHotels

\* the dedup key of the specification: lower(name) + "|" + lower(city)
DedupKey(h) == toLowerCase(h.name) \o << "|" >> \o toLowerCase(h.city)

UniqueKeys ==
    \A a, b \in 1..Len(results) : a # b => DedupKey(results[a]) # DedupKey(results[b])

\* position in list of the first card with this key
FirstOf(list, key) ==
    CHOOSE j \in 1..Len(list) :
        /\ DedupKey(list[j]) = key
        /\ \A k \in 1..(j - 1) : DedupKey(list[k]) # key

\* a step keeps the stored entries as they are and appends, in page order, the
\* first card of keys not stored before
FirstWins ==
    /\ Len(results') >= Len(results)
    /\ SubSeq(results', 1, Len(results)) = results
    /\ \A k \in (Len(results) + 1)..Len(results') :
         /\ \E j \in 1..Len(cards') : DedupKey(cards'[j]) = DedupKey(results'[k])
         /\ results'[k] = cards'[FirstOf(cards', DedupKey(results'[k]))]
         /\ \A m \in (Len(results) + 1)..(k - 1) :
              FirstOf(cards', DedupKey(results'[m])) < FirstOf(cards', DedupKey(results'[k]))

\* C12: at every point of a discovery run no two entries of results share the
\* key lower(name) + "|" + lower(city); a card whose key is already stored is
\* dropped and the stored entry stays as it is; entries stay in the order in
\* which their keys were first observed.
C12_GlobalDedup == [](UniqueKeys) /\ [][FirstWins]_vars

\* a later page rendered a second card of a stored key; the list holds one
\* entry per key of the source and not that card
C12_Witness ==
    /\ Returned /\ Len(clicks) >= 1
    /\ Cardinality(sourceCards) > Len(results)
    /\ \A c \in sourceCards : \E k \in 1..Len(results) : DedupKey(results[k]) = DedupKey(c)
    /\ \E c \in Range(view.cards) : c \notin Range(results)

\* the keys of the source pages navigated to
SourceKeys == { DedupKey(c) : c \in sourceCards }
ResultKeys == { DedupKey(results[k]) : k \in 1..Len(results) }

\* the browser shows the last page of the source and its next control is
\* absent or disabled
SourceExhausted == view.idx = sourcePages /\ view.next \in { "none", "disabled" }

\* getSparrowHotels has ended, by return or by throw
Ended == dpc \in { "returned", "threw" }

\* the list holds exactly one candidate per key of the source, as far as the
\* source was paged through; pages are left unvisited only with a full list
OnePerKey ==
    /\ (SourceExhausted /\ Cardinality(SourceKeys) <= maxHotels) =>
           (Len(results) = Cardinality(SourceKeys) /\ ResultKeys = SourceKeys)
    /\ view.idx < sourcePages => Len(results) >= maxHotels

RECURSIVE Deduplicated(_)
Deduplicated(list) ==
    IF list = << >> THEN << >>
    ELSE LET front == Deduplicated(AllBut(list))
         IN  IF \E k \in 1..Len(front) : DedupKey(front[k]) = DedupKey(Last(list))
             THEN front
             ELSE Append(front, Last(list))

FirstAtMost(list, n) == SubSeq(list, 1, IF Len(list) < n THEN Len(list) ELSE n)

\* page 1 is the only page and its next control is absent or disabled
NoNextOnPageOne == sourcePages = 1 /\ view.next \in { "none", "disabled" }

\* C14: when page 1 exposes no next control, or only disabled ones,
\* getSparrowHotels clicks nothing and returns exactly the deduplicated cards
\* of page 1, capped at maxHotels.
C14_NoNextControl ==
    NoNextOnPageOne =>
        /\ clicks = << >>
        /\ dpc # "threw"
        /\ Returned => results = FirstAtMost(Deduplicated(view.cards), maxHotels)

\* the page shown has a next control that can be clicked
UsableNext == view.next \in { "enabled", "stuck" }

PagesVisited == 1 + Len(clicks)

\* one of the three stop conditions of the pagination loop holds
StopCondition ==
    ~UsableNext \/ PagesVisited >= maxPages \/ Len(results) >= maxHotels

\* C15: the pagination loop ends exactly when no usable next control exists,
\* when maxPages pages have been visited, or when the number of unique
\* candidates has reached maxHotels: a run that returned had a stop condition,
\* a click is made only while none holds, so at most maxPages pages are
\* extracted and nothing is clicked once results holds maxHotels candidates.
C15_StopConditions ==
    /\ [](Returned => StopCondition)
    /\ [](PagesVisited <= maxPages)
    /\ [][clicks' # clicks => ~StopCondition]_vars

\* C16: when the wait after a next-click times out (the card count did not
\* increase and the first heading did not change within the timeout),
\* discovery takes pagination as exhausted: no further click follows.
C16_WaitTimeoutEndsPagination == [][waited = "timeout" => clicks' = clicks]_vars

\* the page clicked to shows its cards from extraction number n on
FillsBy(n) == view.cards # << >> /\ view.empties < n

\* a step of part_009 that clicked through to a page
Part009Clicked == discoverVariant = "part_009" /\ clicks' # clicks

\* every card of the last extraction is in the list, unless the list is full
Contributed ==
    Len(results) >= maxHotels \/
    \A k \in 1..Len(cards) : \E m \in 1..Len(results) : DedupKey(results[m]) = DedupKey(cards[k])

\* C17: after a next-click part_009 extracts a page that shows no cards again,
\* at most 3 more times; the first extraction with cards is used and all of
\* its cards are contributed; the page counts as empty only when the first
\* extraction and all 3 retries found no cards.
C17_RetryThreeMore ==
    [][Part009Clicked =>
          /\ tries' <= 4
          /\ FillsBy(4)' => (tries' = view'.empties + 1 /\ cards' = view'.cards /\ Contributed')
          /\ ~FillsBy(4)' => cards' = << >>]_vars

\* C17 as amended: at most 2 more times, 3 extractions in all; a page still
\* without cards at its third extraction counts as empty and adds nothing.
C17_RetryTwoMore ==
    [][Part009Clicked =>
          /\ tries' <= 3
          /\ FillsBy(3)' => (tries' = view'.empties + 1 /\ cards' = view'.cards /\ Contributed')
          /\ ~FillsBy(3)' => (tries' = 3 /\ cards' = << >> /\ results' = results)]_vars

\* part_009 found a page without cards twice, and its third extraction gave
\* the cards, which are now in the list
C17_Witness ==
    /\ discoverVariant = "part_009" /\ clicks # << >>
    /\ view.empties = 2 /\ tries = 3
    /\ cards = view.cards /\ cards # << >>
    /\ \E k \in 1..Len(results) : results[k] = cards[1] /\ k > Last(clicks).unique

\* ---------------------------------------------------------------------------
\* Claims about the price extractions of the resolver
\* ---------------------------------------------------------------------------
\* an operation of the major-provider step threw in the last call, after the
\* best-price extraction had run
MajorStepThrew ==
    /\ call.kind = "call"
    /\ call.env.failAt \in { "countViewPrices", "viewPrices", "extractMajor" }
    /\ \E k \in 1..Len(call.steps) : call.steps[k] = "extractBest"

\* C18: when an operation of the major-provider step throws (locating or
\* clicking 'View prices', evaluating the provider blocks),
\* getGoogleHotelsPriceSimple still returns, with google_major_best = null
\* and with google_best as the best-price extraction produced it.
C18_MajorErrorsContained ==
    MajorStepThrew =>
        /\ call.result.kind = "return"
        /\ call.result.google_major_best = [ null |-> TRUE ]
        /\ call.result.google_best = call.env.best

\* the currency amounts the price spans of a provider block show
AmountsOf(block) ==
    { parsePrice(block.spans[k]).num :
        k \in { j \in 1..Len(block.spans) : parsePrice(block.spans[j]) # [ null |-> TRUE ] } }

\* the block is headed by a provider name that contains an allow-listed brand
AllowListed(block) ==
    /\ block.name # NoNameEl
    /\ \E k \in 1..Len(majorBrands) : Includes(toLowerCase(block.name), majorBrands[k])

Least(set) == CHOOSE v \in set : \A w \in set : v <= w

\* per allow-listed block with a parsable amount, its lowest amount
Contributions ==
    { Least(AmountsOf(dom.blocks[k])) :
        k \in { j \in 1..Len(dom.blocks) :
                  AllowListed(dom.blocks[j]) /\ AmountsOf(dom.blocks[j]) # { } } }

\* C19: extractMajorProviderPrice returns the minimum, over the provider blocks
\* whose name contains an allow-listed brand, of the minimum currency amount
\* in the block; blocks with another name or without a parsable amount
\* contribute nothing; the result is null exactly when no allow-listed block
\* has a parsable amount.
C19_MinOfBlockMinima ==
    extracted.kind = "major" =>
        IF Contributions = { } THEN extracted.value = [ null |-> TRUE ]
        ELSE extracted.value = [ num |-> Least(Contributions) ]

\* two blocks: one of another provider with the lowest amount of the page, one
\* allow-listed whose second span is its lowest, which is the result
C19_Witness ==
    /\ extracted.kind = "major" /\ Len(dom.blocks) = 2
    /\ DOMAIN extracted.value = { "num" }
    /\ \E k \in 1..2 :
         /\ ~AllowListed(dom.blocks[k]) /\ AmountsOf(dom.blocks[k]) # { }
         /\ Least(AmountsOf(dom.blocks[k])) < extracted.value.num
    /\ \E k \in 1..2 :
         /\ AllowListed(dom.blocks[k]) /\ Cardinality(AmountsOf(dom.blocks[k])) = 2
         /\ extracted.value.num = Least(AmountsOf(dom.blocks[k]))
         /\ parsePrice(dom.blocks[k].spans[1]) # extracted.value

\* the three strategies of the fallback chain on the page: (a) the first
\* labelled anchor that matches the property name and holds a price, (b) a
\* card whose title matches the name, scanned the same way, (c) the first
\* price of the body text
StrategyA == ScanAnchors(dom.anchors, toLowerCase(HotelName))

StrategyB ==
    IF \E k \in 1..Len(dom.containers) :
          /\ LabelMatches(dom.containers[k].title, toLowerCase(HotelName))
          /\ PricedTexts(dom.containers[k].texts) # << >>
    THEN LET k == CHOOSE k \in 1..Len(dom.containers) :
                      /\ LabelMatches(dom.containers[k].title, toLowerCase(HotelName))
                      /\ PricedTexts(dom.containers[k].texts) # << >>
             texts == PricedTexts(dom.containers[k].texts)
         IN  parsePrice(ChosenText(texts, texts[1]))
    ELSE [ null |-> TRUE ]

StrategyC == parsePrice(dom.body)

\* C20: bestPrice comes from the first strategy that yields a price, in the
\* order (a) aria-label anchor, (b) card-title container, (c) body text; when
\* (a) has no match and (b) has one, bestPrice is the value of (b), never the
\* value of (c).
C20_FallbackOrder ==
    extracted.kind = "best" =>
        extracted.value =
            IF StrategyA # [ null |-> TRUE ] THEN StrategyA
            ELSE IF StrategyB # [ null |-> TRUE ] THEN StrategyB
            ELSE StrategyC

\* the anchor's accessible label matches the property name: one contains the
\* other, case ignored
MatchesName(a) ==
    \/ Includes(toLowerCase(a.label), toLowerCase(HotelName))
    \/ Includes(toLowerCase(HotelName), toLowerCase(a.label))

\* the text holds a currency fragment: "$", at most one space, a digit
HasCurrency(t) ==
    \E k \in 1..Len(t) :
        /\ t[k] = "$"
        /\ \/ k + 1 <= Len(t) /\ IsDigit(t[k + 1])
           \/ k + 2 <= Len(t) /\ t[k + 1] = " " /\ IsDigit(t[k + 2])

\* positions of the anchors that match the name and hold a currency fragment
Candidates ==
    { k \in 1..Len(dom.anchors) :
        /\ MatchesName(dom.anchors[k])
        /\ \E j \in 1..Len(dom.anchors[k].texts) : HasCurrency(dom.anchors[k].texts[j]) }

\* the amounts of the currency-bearing texts of an anchor
AnchorAmounts(a) ==
    { parsePrice(a.texts[j]) : j \in { n \in 1..Len(a.texts) : HasCurrency(a.texts[n]) } }

\* a resolver call in which nothing throws, the picker shows the requested
\* window and the best-price extraction produced best
CallWithBest(v, best) ==
    getGoogleHotelsPriceSimple(v, window.checkIn, window.checkOut,
        [ failAt |-> "none", shownIn |-> window.checkIn, shownOut |-> window.checkOut,
          best |-> best, major |-> [ null |-> TRUE ] ])

\* C21: an extraction miss is a value: extractSelectedDatesPrice returns null
\* when no anchor matches the property name or no matching anchor holds a
\* currency fragment; a matching anchor without a price is passed over, so the
\* price comes from the first matching anchor that holds one; and the resolver
\* call built on a miss returns a result object whose google_best is null.
C21_ExtractionMissIsValue ==
    extracted.kind = "best" =>
        /\ Candidates = { } => extracted.value = [ null |-> TRUE ]
        /\ Candidates # { } =>
               extracted.value \in AnchorAmounts(dom.anchors[Least(Candidates)])
        /\ \A v \in ResolverVariants :
               /\ CallWithBest(v, extracted.value).result.kind = "return"
               /\ CallWithBest(v, extracted.value).result.google_best = extracted.value

\* a miss next to a price: the first anchor matches the name and holds no
\* currency fragment, the second holds one under another name
C21_Witness ==
    /\ extracted = [ kind |-> "best", value |-> [ null |-> TRUE ] ]
    /\ Len(dom.anchors) = 2
    /\ MatchesName(dom.anchors[1]) /\ AnchorAmounts(dom.anchors[1]) = { }
    /\ ~MatchesName(dom.anchors[2]) /\ AnchorAmounts(dom.anchors[2]) # { }

\* the last call launched a browser session
Launched == call.kind = "call" /\ call.env.failAt # "launch"

\* C22: on every exit path of a resolver call (return, date-mismatch return,
\* an exception at any step after the launch, page creation and navigation
\* included) the session the call launched has been closed, so no session is
\* open after any number of calls.
C22_ScopedSession ==
    /\ sessions = 0
    /\ Launched => call.steps[Len(call.steps)] = "close"

\* ---------------------------------------------------------------------------
\* Claims about the helper computations
\* ---------------------------------------------------------------------------
\* a row cell or a price that holds a number
Present(x) == DOMAIN x = { "num" }

Missing(x) == x = [ blank |-> TRUE ]

\* one advantage pair of a row, against the reference price it belongs to
AdvantagePair(own, reference, advCurrency, advFraction) ==
    /\ IF Present(own) /\ Present(reference)
       THEN advCurrency = [ num |-> reference.num - own.num ]
       ELSE Missing(advCurrency)
    /\ IF Present(own) /\ Present(reference) /\ reference.num > 0
       THEN /\ DOMAIN advFraction = { "over", "under" }
            /\ advFraction.under # 0
            /\ advFraction.over * reference.num = advCurrency.num * advFraction.under
       ELSE Missing(advFraction)

\* C23: for each of the two reference prices on its own, the advantage in
\* currency is reference - own price exactly when both are present and is
\* missing otherwise (never 0), and the advantage as a fraction is that
\* difference divided by the reference exactly when both are present and the
\* reference is above 0, missing otherwise; the pair of one reference does not
\* depend on the other reference.
C23_RowAdvantageMath ==
    value.kind = "row" =>
        /\ Present(value.row.sb_price) <=> args.priceRaw # [ null |-> TRUE ]
        /\ AdvantagePair(value.row.sb_price, args.google_best,
                         value.row.adv_all, value.row.adv_all_pct)
        /\ AdvantagePair(value.row.sb_price, args.google_major_best,
                         value.row.adv_major, value.row.adv_major_pct)

\* own price 100 against a best price of 150 and no major price: 50 and
\* 50/150 in the best pair, nothing in the major pair
C23_Witness ==
    /\ value.kind = "row"
    /\ value.row.sb_price = [ num |-> 100 ]
    /\ args.google_best = [ num |-> 150 ] /\ args.google_major_best = [ null |-> TRUE ]
    /\ value.row.adv_all = [ num |-> 50 ]
    /\ value.row.adv_all_pct = [ over |-> 50, under |-> 150 ]
    /\ Missing(value.row.adv_major) /\ Missing(value.row.adv_major_pct)

\* b is a calendar date later than the calendar date a
LaterDate(b, a) ==
    /\ DOMAIN a = { "m", "d" } /\ DOMAIN b = { "m", "d" }
    /\ b.m > a.m \/ (b.m = a.m /\ b.d > a.d)

\* C26: for every CHECKIN_OFFSET_DAYS and NIGHTS read from the environment
\* that the run goes on with, the date window handed to discovery and to the
\* resolver has checkOut later than checkIn.
C26_WindowValid ==
    (value.kind = "window" /\ value.accepted) => LaterDate(value.checkOut, value.checkIn)

\* the text is a number as a distance shows it: digits and dots
IsDistance(t) == t # << >> /\ \A k \in 1..Len(t) : IsDigit(t[k]) \/ t[k] = "."

\* s ends in " - <number> mi away" and the suffix starts at position k
SuffixAt(s, k) ==
    /\ k + 2 <= Len(s) /\ SubSeq(s, k, k + 2) = << " ", "-", " " >>
    /\ Len(s) - 8 >= k + 3
    /\ SubSeq(s, Len(s) - 7, Len(s)) = << " ", "m", "i", " ", "a", "w", "a", "y" >>
    /\ IsDistance(SubSeq(s, k + 3, Len(s) - 8))

\* s without the blanks at its two ends
Trimmed(s) ==
    IF \A k \in 1..Len(s) : s[k] = " " THEN << >>
    ELSE LET from == CHOOSE k \in 1..Len(s) : s[k] # " " /\ \A j \in 1..(k - 1) : s[j] = " "
             to == CHOOSE k \in 1..Len(s) : s[k] # " " /\ \A j \in (k + 1)..Len(s) : s[j] = " "
         IN  SubSeq(s, from, to)

\* C30: for a location text that ends in " - <number> mi away", cleanCity is
\* the trimmed text in front of that suffix, also when the location itself
\* holds " - "; and cleanCity applied to its own result changes nothing.
C30_CleanCity ==
    value.kind = "city" =>
        /\ \A k \in 1..Len(args.cityRaw) :
               SuffixAt(args.cityRaw, k) =>
                   value.once = Trimmed(SubSeq(args.cityRaw, 1, k - 1))
        /\ value.twice = value.once

\* ---------------------------------------------------------------------------
\* Claims about the run
\* ---------------------------------------------------------------------------
\* the mains that test WEBHOOK_URL: index.js:18-168, part_005, part_006
HasWebhookGuard == runVariant \in { "index", "part_005", "batched" }

\* C24: if WEBHOOK_URL is unset or does not start with http:// or https://,
\* the run ends with a non-zero exit, and no discovery navigation, no
\* resolver call and no POST has been performed.
C24_ConfigFailureFatal ==
    (HasWebhookGuard /\ ~webhookOk) =>
        /\ trace = << >> /\ calls = 0 /\ sent = << >>
        /\ pc # "start" => exitCode = "exit 1"

\* the date window an event of the trace was given
EventWindow(e) == [ checkIn |-> e.checkIn, checkOut |-> e.checkOut ]

IsDated(e) == e.op \in { "discover", "call" }
IsCall(e) == e.op = "call"

\* the resolver calls of the run so far, in order; call n is the one for row n
CallsSoFar == SelectSeq(trace, IsCall)

\* the check-in and check-out columns of a row
RowWindow(r) == [ checkIn |-> r.check_in, checkOut |-> r.check_out ]

\* C25: the checkIn/checkOut values passed to the discovery call are identical
\* to those passed to every resolver call of the same run, and the check-in
\* and check-out columns of every row built from a resolver result equal that
\* same window.
C25_SharedWindow ==
    LET dated == SelectSeq(trace, IsDated)
    IN  /\ \A k \in 1..Len(dated) : EventWindow(dated[k]) = EventWindow(dated[1])
        /\ \A n \in 1..Len(rows) :
               (n <= Len(CallsSoFar) /\ ~CallsSoFar[n].threw)
                   => RowWindow(rows[n]) = EventWindow(dated[1])

\* the resolver calls alone work on one window
C25_CallsAgree ==
    \A k \in 1..Len(CallsSoFar) : EventWindow(CallsSoFar[k]) = EventWindow(CallsSoFar[1])

\* C27: throughout a run at most one browser session is open; a resolver call
\* starts only after the call before it and the discovery call have ended and
\* closed their sessions, so that its own session is the only one open.
C27_NoFanOut ==
    /\ sessions <= 1
    /\ trace # << >> => trace[1].op = "discover"
    /\ \A k \in 1..Len(trace) : IsDated(trace[k]) => trace[k].open <= 1

IsPoliteSleep(e) == e.op = "sleep" /\ e.ms >= 1000 /\ e.ms <= 1599

\* a delay elapses between any two consecutive resolver calls: a call that is
\* not the first of the run comes right after a politeness sleep
C28_DelayBetweenCalls ==
    \A k \in 2..Len(trace) :
        (IsCall(trace[k]) /\ \E j \in 1..(k - 1) : IsCall(trace[j]))
            => IsPoliteSleep(trace[k - 1])

\* C28: every resolver invocation of a run is preceded by a randomized
\* politeness delay of 1000 to 1599 ms; in particular a delay elapses between
\* any two consecutive resolver invocations, also when the earlier one failed
\* with an exception.
C28_PolitenessDelay ==
    /\ \A k \in 1..Len(trace) :
           IsCall(trace[k]) => (k > 1 /\ IsPoliteSleep(trace[k - 1]))
    /\ C28_DelayBetweenCalls

\* the number of listings the discovery call of the run returned
Found == IF trace # << >> /\ trace[1].op = "discover" THEN trace[1].found ELSE 0

IsPrefixOf(s, t) == Len(s) <= Len(t) /\ s = SubSeq(t, 1, Len(s))

\* one resolver call and one row per listing, in discovery order; when the loop
\* is over every discovered listing has its row; a run that delivers has sent
\* all rows in that order
C29_RowPerListing ==
    /\ Len(CallsSoFar) = Len(rows)
    /\ \A n \in 1..Len(rows) : rows[n].property = n
    /\ pc \notin { "start", "loop" } => Len(rows) = Found
    /\ (pc = "exit" /\ exitCode = "exit 0" /\ ~dryRun) => Concat(sent) = rows

\* C29: for every listing returned by discovery the run invokes the resolver
\* exactly once and appends exactly one row, rows are appended in discovery
\* order and never modified afterwards, and all rows appear in the delivered
\* payload(s) in that order.
C29_EveryListingProcessed ==
    /\ [] C29_RowPerListing
    /\ [][IsPrefixOf(rows, rows')]_vars

IsBlankRun(t, a, b) == \A j \in a..b : t[j] = " "

\* the digit at k follows a currency marker: a "$" stands before it, with
\* nothing but blanks in between
FollowsMarker(t, k) ==
    /\ IsDigit(t[k])
    /\ \E j \in 1..(k - 1) : t[j] = "$" /\ IsBlankRun(t, j + 1, k - 1)

\* the number written by the digits and thousands commas that start at k
RECURSIVE RunNumber(_, _, _)
RunNumber(t, k, n) ==
    IF k <= Len(t) /\ t[k] = "," THEN RunNumber(t, k + 1, n)
    ELSE IF k <= Len(t) /\ IsDigit(t[k]) THEN RunNumber(t, k + 1, 10 * n + DigitVal(t[k]))
    ELSE n

\* what parseCurrency is to give for a text
MarkedNumber(t) ==
    LET starts == { k \in 1..Len(t) : FollowsMarker(t, k) }
    IN  IF starts = {} THEN Null
        ELSE Num(RunNumber(t, CHOOSE k \in starts : \A j \in starts : k <= j, 0))

\* the parser of extractMajorProviderPrice alone meets the statement
C31_ParsePriceConforms ==
    value.kind = "parse" => value.parsePrice = MarkedNumber(args.text)

\* C31: the parsed value is the number formed by the first digit run that
\* follows a currency marker, with comma thousands separators removed, and
\* null when the text has no digit run; digits that do not follow a currency
\* marker are never returned as a price.
C31_ParseCurrency ==
    value.kind = "parse"
        => /\ value.parsePrice = MarkedNumber(args.text)
           /\ value.dollarsToNumber = MarkedNumber(args.text)

\* ---------------------------------------------------------------------------
\* Claims about the extractions and the discovery (continued)
\* ---------------------------------------------------------------------------
BothPresent(pair) == Present(pair.google_best) /\ Present(pair.google_major_best)

\* part_000 alone: lowestAll is never above lowestMajor
C32_SummaryConforms ==
    (extracted.kind = "pair" /\ extracted.version = "part_000" /\ BothPresent(extracted.value))
        => extracted.value.google_best.num <= extracted.value.google_major_best.num

\* C32: whenever a resolver result has both google_best and google_major_best
\* non-null, google_best <= google_major_best.
C32_BestNotAboveMajor ==
    (extracted.kind = "pair" /\ BothPresent(extracted.value))
        => extracted.value.google_best.num <= extracted.value.google_major_best.num

\* the fragment is marked "nightly", in any letter case
MarkedNightly(t) == Includes(toLowerCase(t), << "n", "i", "g", "h", "t", "l", "y" >>)

\* positions of the currency-bearing fragments of an anchor, and of those among
\* them that are marked "nightly"
CurrencyFragments(a) == { j \in 1..Len(a.texts) : HasCurrency(a.texts[j]) }
NightlyFragments(a) == { j \in CurrencyFragments(a) : MarkedNightly(a.texts[j]) }

\* the fragment the price is to be read from
PreferredFragment(a) ==
    IF NightlyFragments(a) # { } THEN a.texts[Least(NightlyFragments(a))]
    ELSE a.texts[Least(CurrencyFragments(a))]

\* C33: among the currency-bearing text fragments of the first matching anchor
\* that has any, the price is taken from the first fragment marked "nightly" if
\* one exists, and from the first fragment in document order only when none is
\* marked "nightly".
C33_NightlyPreferred ==
    (extracted.kind = "best" /\ Candidates # { })
        => extracted.value = MarkedNumber(PreferredFragment(dom.anchors[Least(Candidates)]))

\* a nightly fragment stands behind a fragment with another amount and wins
C33_Witness ==
    /\ extracted.kind = "best" /\ Candidates # { }
    /\ LET a == dom.anchors[Least(Candidates)]
       IN  /\ NightlyFragments(a) # { }
           /\ Least(NightlyFragments(a)) > Least(CurrencyFragments(a))
           /\ MarkedNumber(a.texts[Least(CurrencyFragments(a))]) # extracted.value

\* the next control of the page shown can be clicked: it is there and does not
\* carry the disabled attribute
NextIsEnabled == view.next \notin { "none", "disabled" }

\* C34: in every pagination step the control that is clicked does not carry
\* the disabled attribute; if every candidate next control is disabled, no
\* click happens and pagination stops.
C34_OnlyEnabledNextClicked ==
    [][ /\ (clicks' # clicks /\ clicks'[Len(clicks')].kind = "next") => NextIsEnabled
        /\ (dpc = "loop" /\ view.next = "disabled")
               => (clicks' = clicks /\ dpc' = "returned" /\ results' = results) ]_vars

\* the address reached by clicking the card the k-th candidate was read from
OwnAddress(k) == IF k = 1 THEN "/deal/1" ELSE "/deal/2"

\* the click-through step leaves name, city and priceRaw of every candidate
\* alone and keeps a url that was already there
C35_OnlyUrlChanges ==
    value.kind = "urls" =>
        /\ Len(value.items) = Len(args.items)
        /\ \A k \in 1..Len(args.items) :
               /\ value.items[k].name = args.items[k].name
               /\ value.items[k].city = args.items[k].city
               /\ value.items[k].priceRaw = args.items[k].priceRaw
               /\ args.items[k].url # "" => value.items[k].url = args.items[k].url

\* C35: click-through URL capture changes only the url field: name, city and
\* priceRaw are the same before and after, a candidate that already has a url
\* keeps it, and a url that is filled in is the address reached by clicking
\* that candidate's own card, not another card's.
C35_UrlCaptureFrame ==
    /\ C35_OnlyUrlChanges
    /\ value.kind = "urls" =>
           \A k \in 1..Len(args.items) :
               value.items[k].url # args.items[k].url => value.items[k].url = OwnAddress(k)

\* the aria-label is empty or holds nothing but whitespace
IsBlankLabel(label) == \A k \in 1..Len(label) : label[k] = " "

\* positions of the anchors with a label of their own that matches the name
\* and with a currency fragment
LabelledCandidates == { k \in Candidates : ~IsBlankLabel(dom.anchors[k].label) }

\* C36: an anchor whose aria-label is empty or only whitespace is never
\* treated as a match for a property name by extractSelectedDatesPrice, so its
\* price is never returned as google_best for a non-empty hotel name: the
\* price comes from the first priced anchor whose own label matches, and
\* without such an anchor the result is null.
C36_BlankLabelNeverMatches ==
    (extracted.kind = "best" /\ HotelName # << >>)
        => IF LabelledCandidates = { } THEN extracted.value = [ null |-> TRUE ]
           ELSE extracted.value \in AnchorAmounts(dom.anchors[Least(LabelledCandidates)])

\* getSparrowHotels is over: it returned its list, or an exception left it
\* (thrown by the navigation, or by the wait for a first card)
DiscoveryOver == dpc \in { "returned", "threw", "failed" }

\* C37: on every exit path of getSparrowHotels, including an exception thrown
\* by navigation, by the initial wait for a first card, by card extraction or
\* by a pagination step, the browser session it launched has been closed.
C37_DiscoverySessionClosed == DiscoveryOver => sessions = 0

\* the return path does close the session
C37_ClosedOnReturn == dpc = "returned" => sessions = 0

\* ---------------------------------------------------------------------------
\* Claims about the run (continued)
\* ---------------------------------------------------------------------------
\* C38: when DRY_RUN is true, no POST to the webhook is performed in any
\* execution of the run, while discovery, every resolver call and every row
\* construction still take place: the run never gets to the POST, and a dry
\* run that ends normally has discovered, and has made one resolver call and
\* built one row for every listing it had to process.
C38_DryRunSendsNothing ==
    dryRun =>
        /\ sent = << >> /\ responses = << >> /\ pc # "postall"
        /\ (pc = "exit" /\ exitCode = "exit 0")
               => /\ trace # << >> /\ trace[1].op = "discover"
                  /\ Len(CallsSoFar) = Len(hotels)
                  /\ Len(rows) = Len(hotels)
                  /\ \A n \in 1..Len(rows) : rows[n].property = hotels[n]

\* a dry run went through two listings and ended normally without a POST
C38_Witness ==
    /\ dryRun /\ pc = "exit" /\ exitCode = "exit 0"
    /\ Len(rows) = 2 /\ Len(CallsSoFar) = 2 /\ sent = << >>

\* ---------------------------------------------------------------------------
\* Claims about delivery (continued)
\* ---------------------------------------------------------------------------
\* the backoff sleeps of batch j
SleepsOf(j) == Cardinality({ k \in 1..Len(delays) : delays[k].chunk = j })

\* C39: within postRowsChunk every backoff sleep is followed by another POST
\* attempt of the same batch, so a batch with n POST attempts incurs at most
\* n - 1 sleeps and no sleep follows the final attempt of an abandoned batch.
C39_SleepOnlyBetweenAttempts ==
    /\ [] (runVariant = "batched" =>
             \A j \in 1..Len(outcomes) : SleepsOf(j) <= outcomes[j].posts - 1)
    /\ [][(runVariant = "batched" /\ pc = "sleep")
             => (pc' = "post" /\ Len(sent') = Len(sent))]_vars

\* a batch that was delivered or rejected slept only between its attempts
C39_BetweenAttemptsUnlessAbandoned ==
    runVariant = "batched" =>
        \A j \in 1..Len(outcomes) :
            outcomes[j].result # "abandoned" => SleepsOf(j) = outcomes[j].posts - 1

\* ceil(n / 20)
BatchCount(n) == (n + 19) \div 20

RECURSIVE PostsOf(_)
PostsOf(outs) == IF outs = << >> THEN 0 ELSE outs[1].posts + PostsOf(Tail(outs))

\* the POSTs made so far: those of the finished batches and those of the batch
\* in hand
TotalPosts ==
    PostsOf(outcomes) + (IF pc \in { "post", "sleep" } THEN Len(responses) ELSE 0)

\* C40: for every row list of length N and every sequence of webhook answers
\* and network errors the delivery loop finishes; by then each of the
\* ceil(N/20) batches had between 1 and 4 POST attempts, so that at most
\* ceil(N/20) * 4 POSTs are made in total.
C40_DeliveryTerminatesBounded ==
    /\ (runVariant = "batched") => <>(pc = "exit" /\ exitCode = "exit 0")
    /\ [] (runVariant = "batched" =>
             /\ Len(outcomes) <= BatchCount(Len(rows))
             /\ \A j \in 1..Len(outcomes) : outcomes[j].posts \in 1..4
             /\ pc \in { "post", "sleep" } => Len(responses) \in 0..4
             /\ TotalPosts <= BatchCount(Len(rows)) * 4
             /\ pc = "exit" => Len(outcomes) = BatchCount(Len(rows)))

C40_Witness ==
    /\ runVariant = "batched" /\ pc = "exit"
    /\ Len(rows) = 41 /\ Len(outcomes) = 3
    /\ TotalPosts = 12
====
